---- MODULE Spec2Model ----
(***************************************************************************)
(* A model of the aiovantage object synchronisation runtime:               *)
(*   - ButtonInterface (src/aiovantage/_object_interfaces/button.py): the  *)
(*     property cache of one button, its setters/getters, fetch_state and  *)
(*     the pushed-status handler;                                          *)
(*   - the command connection shared by all callers (gate, pending         *)
(*     request, replies, timeouts);                                        *)
(*   - the Vantage client (src/aiovantage/__init__.py): snapshot           *)
(*     injection, controller initialisation, registries and monitoring;    *)
(*   - the event stream: status subscriptions, the read loop, disconnects  *)
(*     and reconnects;                                                     *)
(*   - Vantage.subscribe and the events the controllers emit;              *)
(*   - Vantage.close and __aexit__.                                        *)
(* The specifications share the variables; each leaves the variables of    *)
(* the other parts at their initial values.                                *)
(***************************************************************************)
EXTENDS Integers, Sequences, FiniteSets, TLC

VARIABLES
    \* ---- ButtonInterface (one button) ----
    cache,        \* the cached properties of the button
    hasClient,    \* whether the object has a command client
    task,         \* the client call in progress on the button
    ev,           \* the most recent step on the button: a handled status
                  \* event, a finished call or a cache update inside a call
    fetched,      \* whether fetch_state has been called on the button
    \* ---- the command connection ----
    call,         \* per caller: the invoke / raw_request call it is making
    gateHolder,   \* the caller holding the serialization gate, or NoCaller
    gateWaiters,  \* the callers waiting at the gate, in arrival order
    wire,         \* requests the controller received and has not answered
    nextSeq,      \* the number of the next request (model bookkeeping)
    timedOut,     \* the numbers of the requests whose call timed out
    \* ---- the Vantage client and its controllers ----
    file,         \* the local config file: a sequence of <Object> elements,
                  \* or NoFile
    enhancedLog,  \* whether the firmware advertises the enhanced log
    registry,     \* per controller: the objects it owns
    initialized,  \* per controller: the _initialized mark
    injectedInto, \* per controller: the ids injected into it so far
    job,          \* per controller: the step its running operation is at
    opts,         \* the flags of the client operation in progress
    lastInit,     \* per controller: what its latest initialize() saw and did
    statusType,   \* per controller: the StatusType chosen by monitoring
    monitoring,   \* per controller: whether state monitoring is enabled
    subs,         \* the event stream's subscriptions, in order of creation
    statusUnsubs, \* per controller: the stored unsubscribe functions
    inits,        \* how many times Vantage.initialize() has been called
    enables,      \* how many times enable_state_monitoring() has been called
    clientCall,   \* the latest call of a client-level operation and how
                  \* it ended
    stateFetched, \* per controller: the ids of the objects whose state
                  \* has been fetched
    \* ---- the event stream ----
    esSubs,       \* the subscribe_status registrations, in order
    esNext,       \* the id of the next registration
    esConn,       \* the event connection: "connected", "disconnected" or
                  \* "stopped"
    esLoop,       \* the read loop: "running" or "aborted"
    esEnabled,    \* the categories enabled on the current connection
    esWire,       \* the pushed lines not yet read
    esArrived,    \* how many lines have been pushed
    esLog,        \* the callbacks run so far, in order
    \* ---- Vantage.subscribe ----
    subHandles,   \* the unsubscribe functions Vantage.subscribe returned,
                  \* in order, and whether each has been called
    ctlSubs,      \* per controller: its event subscriptions, in order
    emits,        \* how many updates the controllers have emitted
    subEv,        \* the most recent step: a subscribe, an unsubscribe or
                  \* the emission of an update
    \* ---- file_loader.iter_objects ----
    loaded,       \* the latest iter_objects call on the file: whether it was
                  \* made, what it yielded and what it raised
    \* ---- closing the client ----
    cfgClosed,    \* whether the config client has been closed
    cmdClosed,    \* whether the command client has been closed
    esStopped,    \* whether the event stream has been told to stop
    exited        \* how the async context manager was left

buttonVars == <<cache, hasClient, task, ev, fetched>>

commandVars == <<call, gateHolder, gateWaiters, wire, nextSeq, timedOut>>

clientVars == <<file, enhancedLog, registry, initialized, injectedInto, job,
                opts, lastInit, statusType, monitoring, subs, statusUnsubs,
                inits, enables, clientCall, stateFetched>>

eventVars == <<esSubs, esNext, esConn, esLoop, esEnabled, esWire, esArrived,
               esLog>>

subscribeVars == <<subHandles, ctlSubs, emits, subEv>>

closeVars == <<cfgClosed, cmdClosed, esStopped, exited>>

loaderVars == <<loaded>>

vars == <<buttonVars, commandVars, clientVars, eventVars, subscribeVars,
          loaderVars, closeVars>>

(***************************************************************************)
(* Values.  None is the empty tuple for a colour and "None" for an enum,   *)
(* so that a property is only ever compared with values of its own shape.  *)
(***************************************************************************)
NoColor == <<>>
NoValue == "None"

ButtonVid == 447

\* ButtonInterface.State
States == {"Up", "Down"}

\* ButtonInterface.BlinkRate: member name -> wire value
BlinkRateValue == [Fast |-> "FAST", Medium |-> "MEDIUM", Slow |-> "SLOW",
                   VerySlow |-> "VERYSLOW", Off |-> "OFF"]
BlinkRates == DOMAIN BlinkRateValue

\* The declared properties and their class-level defaults.
PropertyDefaults == [state |-> "Up",
                     led_active_color |-> NoColor,
                     led_inactive_color |-> NoColor,
                     led_blink_rate |-> NoValue]
PropNames == DOMAIN PropertyDefaults
LedNames == <<"led_active_color", "led_inactive_color", "led_blink_rate">>

(***************************************************************************)
(* Interface.update_properties: for each supplied (name, value) in order,  *)
(* write and report the name iff the value differs from the cached one.    *)
(* props is a sequence of <<name, value>> pairs (a dict in insertion       *)
(* order).                                                                 *)
(***************************************************************************)
RECURSIVE UpdateProperties(_, _)
UpdateProperties(c, props) ==
    IF props = <<>> THEN [cache |-> c, changed |-> <<>>]
    ELSE LET k == Head(props)[1]
             v == Head(props)[2]
             differs == c[k] # v
             c1 == IF differs THEN [c EXCEPT ![k] = v] ELSE c
             rest == UpdateProperties(c1, Tail(props))
         IN  [cache |-> rest.cache,
              changed |-> (IF differs THEN <<k>> ELSE <<>>) \o rest.changed]

(***************************************************************************)
(* Decoding of wire tokens.                                                *)
(***************************************************************************)
\* int(token): the integer, or a ValueError
IntTokens == {"0", "255"}
ParseInt(tok) ==
    CASE tok = "0" -> [ok |-> TRUE, val |-> 0]
      [] tok = "255" -> [ok |-> TRUE, val |-> 255]
      [] OTHER -> [ok |-> FALSE, val |-> 0]

\* ButtonInterface.BlinkRate(token): lookup by value, or a ValueError
ParseBlinkRate(tok) ==
    IF \E m \in BlinkRates : BlinkRateValue[m] = tok
    THEN [ok |-> TRUE, val |-> CHOOSE m \in BlinkRates : BlinkRateValue[m] = tok]
    ELSE [ok |-> FALSE, val |-> NoValue]

LedPropsFromTokens_Partial(t) ==
    LET n == [i \in 2..7 |-> ParseInt(t[i])]
        b == ParseBlinkRate(t[8])
    IN  [ok |-> TRUE,
         props |->
            (IF \A i \in 2..4 : n[i].ok
             THEN << <<"led_active_color", <<n[2].val, n[3].val, n[4].val>> >> >>
             ELSE <<>>)
            \o (IF \A i \in 5..7 : n[i].ok
                THEN << <<"led_inactive_color", <<n[5].val, n[6].val, n[7].val>> >> >>
                ELSE <<>>)
            \o (IF b.ok THEN << <<"led_blink_rate", b.val>> >> ELSE <<>>)]

\* The dict built from eight LED tokens <<state, r1, g1, b1, r2, g2, b2, blink>>:
\* every value is computed before update_properties is called, so one bad
\* token raises ValueError and nothing is supplied.
LedPropsFromTokens(t) ==
    LET n == [i \in 2..7 |-> ParseInt(t[i])]
        b == ParseBlinkRate(t[8])
    IN  IF (\A i \in 2..7 : n[i].ok) /\ b.ok
        THEN [ok |-> TRUE,
              props |-> << <<"led_active_color", <<n[2].val, n[3].val, n[4].val>> >>,
                           <<"led_inactive_color", <<n[5].val, n[6].val, n[7].val>> >>,
                           <<"led_blink_rate", b.val>> >>]
        ELSE [ok |-> FALSE, props |-> <<>>]

\* ButtonInterface.State as an IntEnum
StateValue == [Up |-> 0, Down |-> 1]

\* Converter.deserialize of a GetState result token into State, or a
\* ConversionError
ParseState(tok) ==
    IF tok \in DOMAIN StateValue
    THEN [ok |-> TRUE, val |-> tok]
    ELSE [ok |-> FALSE, val |-> NoValue]

(***************************************************************************)
(* Method descriptors: the @method decorators.  Only GetState is bound to  *)
(* a property; the setters are declared without one.                       *)
(***************************************************************************)
MethodProperty == [GetState |-> "state", SetState |-> NoValue]

\* Interface.invoke, after a successful reply: the property bound to the
\* method, when there is one, is updated through update_properties.
InvokeUpdate(c, method, value) ==
    IF MethodProperty[method] # NoValue
    THEN UpdateProperties(c, << <<MethodProperty[method], value>> >>)
    ELSE [cache |-> c, changed |-> <<>>]

GetStateMethod_Swapped(hw) ==
    IF hw THEN "Button.GetState" ELSE "Button.GetStateHW"

\* The verb get_state puts on the wire
GetStateMethod(hw) == IF hw THEN "Button.GetStateHW" ELSE "Button.GetState"

\* The verb set_state puts on the wire
SetStateMethod(sw) == IF sw THEN "Button.SetStateSW" ELSE "Button.SetState"

\* INVOKE <id> <Interface.Method> [arg ...]
InvokeCommand(method, args) == <<"INVOKE", ToString(ButtonVid), method>> \o args

\* f"LED {self.vid} {r1} {g1} {b1} {r2} {g2} {b2} {blink_rate}"
LedCommand(active, inactive, blink) ==
    <<"LED", ToString(ButtonVid),
      ToString(active[1]), ToString(active[2]), ToString(active[3]),
      ToString(inactive[1]), ToString(inactive[2]), ToString(inactive[3]),
      BlinkRateValue[blink]>>

\* f"GETLED {self.vid}"
GetLedCommand == <<"GETLED", ToString(ButtonVid)>>

\* The dict set_led hands to update_properties
SetLedProps(active, inactive, blink) ==
    << <<"led_active_color", active>>,
       <<"led_inactive_color", inactive>>,
       <<"led_blink_rate", blink>> >>

SetLedApply_Direct(c, active, inactive, blink) ==
    [cache |-> [c EXCEPT !.led_active_color = active,
                         !.led_inactive_color = inactive,
                         !.led_blink_rate = blink],
     changed |-> LedNames]

\* set_led after the LED command succeeded
SetLedApply(c, active, inactive, blink) ==
    UpdateProperties(c, SetLedProps(active, inactive, blink))

\* The arguments of clear_led's set_led call
ClearLedArgs == << <<0, 0, 0>>, <<0, 0, 0>>, "Off" >>

(***************************************************************************)
(* handle_category_status.  Returns the new cache, the changed names, the  *)
(* exception raised ("none" when it returns) and what was supplied to      *)
(* update_properties.                                                      *)
(***************************************************************************)
BtnMap_Swapped == [PRESS |-> "Up", RELEASE |-> "Down"]

BtnMap == [PRESS |-> "Down", RELEASE |-> "Up"]

Handled(c, props) ==
    LET r == UpdateProperties(c, props)
    IN  [cache |-> r.cache, changed |-> r.changed, raised |-> "none",
         updated |-> TRUE, supplied |-> props]

Raised(c, exc) ==
    [cache |-> c, changed |-> <<>>, raised |-> exc,
     updated |-> FALSE, supplied |-> <<>>]

\* Interface.handle_category_status of the base class: no capability of a
\* button recognises any further category, so the call is a no-op.
BaseHandleCategoryStatus(c, category, args) ==
    [cache |-> c, changed |-> <<>>, raised |-> "none",
     updated |-> FALSE, supplied |-> <<>>]

HandleBtn(c, args) ==
    IF args = <<>> THEN Raised(c, "IndexError")
    ELSE IF args[1] \notin DOMAIN BtnMap THEN Raised(c, "KeyError")
    ELSE Handled(c, << <<"state", BtnMap[args[1]]>> >>)

HandleLed_Reset(c, args) ==
    IF Len(args) < 8
    THEN Handled(c, << <<"led_active_color", NoColor>>,
                       <<"led_inactive_color", NoColor>>,
                       <<"led_blink_rate", NoValue>> >>)
    ELSE LET d == LedPropsFromTokens(SubSeq(args, 1, 8))
         IN  IF d.ok THEN Handled(c, d.props) ELSE Raised(c, "ValueError")

HandleLed(c, args) ==
    IF Len(args) < 8 THEN Raised(c, "ValueError")
    ELSE LET d == LedPropsFromTokens(SubSeq(args, 1, 8))
         IN  IF d.ok THEN Handled(c, d.props) ELSE Raised(c, "ValueError")

HandleCategoryStatus_NoGuard(c, category, args) ==
    IF category = "LED" THEN HandleLed(c, args) ELSE HandleBtn(c, args)

HandleCategoryStatus(c, category, args) ==
    IF category = "BTN" THEN HandleBtn(c, args)
    ELSE IF category = "LED" THEN HandleLed(c, args)
    ELSE BaseHandleCategoryStatus(c, category, args)

\* Controller._handle_status_event: one change event per changed property
EmitChanges(changed) == changed

(***************************************************************************)
(* Inputs of the button part: what callers pass and what the controller    *)
(* sends.                                                                  *)
(***************************************************************************)
\* (active, inactive, blink_rate) arguments of set_led
SetLedInputs == { << <<255, 0, 0>>, <<0, 0, 0>>, "Off" >>,
                  << <<0, 0, 0>>, <<255, 255, 255>>, "Fast" >> }

\* How a command ends: a reply line, or an error raised by the command client
ErrorKinds == {"CommandError", "TimeoutError", "ConnectionClosed"}

\* Result tokens of R:INVOKE <id> <state> Button.GetState
StateTokens == {"Up", "Down", "Sideways"}

\* Last line of the reply to GETLED, tokenized
GetLedLine(rest) == <<"R:GETLED", ToString(ButtonVid)>> \o rest
LedGood1 == <<"1", "255", "0", "0", "0", "0", "0", "OFF">>
LedGood2 == <<"0", "0", "0", "0", "255", "255", "255", "FAST">>
LedShort == <<"1", "255", "0", "0">>
LedLong == LedGood1 \o <<"EXTRA">>
LedNotInt == <<"1", "x", "0", "0", "0", "0", "0", "OFF">>
LedBadBlink == <<"1", "255", "0", "0", "0", "0", "0", "off">>
LedArgLists == {LedGood1, LedGood2, LedShort, LedLong, LedNotInt, LedBadBlink}
GetLedLines == {GetLedLine(a) : a \in LedArgLists}

\* Pushed status events S:<CATEGORY> <id> <arg ...> for this button
StatusEvents ==
    {[category |-> "BTN", args |-> a] :
        a \in {<<"PRESS">>, <<"RELEASE">>, <<"HOLD">>, <<>>}}
    \cup {[category |-> "LED", args |-> a] : a \in LedArgLists}
    \cup {[category |-> "LOAD", args |-> <<"50.000">>]}

(***************************************************************************)
(* State of the button part.                                               *)
(***************************************************************************)
Idle == [op |-> "none", pc |-> "idle", arg |-> <<>>, changed |-> <<>>,
         sent |-> <<>>, follows |-> FALSE, first |-> FALSE]

\* ev.kind is "push" (a handled status event), "call" (a finished call) or
\* "step" (a cache update inside a call still running).  before is the cache
\* when the step began; the cache after it is the current cache.  supplied and
\* updChanged are the argument and the result of the step's update_properties
\* call, when it made one (updated); repeat says that the step before made
\* the same update_properties call.  gotten holds the names the getters of
\* the call had changed, error the error the step met, caught or not.
NoEvent == [kind |-> "none", op |-> "none", arg |-> <<>>, outcome |-> "none",
            result |-> NoValue, changed |-> <<>>, emitted |-> <<>>,
            sent |-> <<>>, reply |-> <<>>, before |-> PropertyDefaults,
            updated |-> FALSE, supplied |-> <<>>, updChanged |-> <<>>,
            follows |-> FALSE, first |-> FALSE, afterPress |-> FALSE,
            repeat |-> FALSE, gotten |-> <<>>, error |-> "none"]

ButtonIdle ==
    /\ cache = PropertyDefaults
    /\ task = Idle
    /\ ev = NoEvent
    /\ fetched = FALSE

InitButtonPart ==
    /\ hasClient \in BOOLEAN
    /\ ButtonIdle

NoUpdate == [updated |-> FALSE, supplied |-> <<>>, changed |-> <<>>]

\* u records an update_properties call with argument props and result r
WithUpdate(props, r) == [updated |-> TRUE, supplied |-> props, changed |-> r.changed]

\* Whether an update_properties call with argument props repeats the one of
\* the latest step
Repeats(props) == ev.updated /\ ev.supplied = props

\* The record of a finished call
Finished(t, outcome, result, changed, reply, u) ==
    [kind |-> "call", op |-> t.op, arg |-> t.arg, outcome |-> outcome,
     result |-> result, changed |-> changed, emitted |-> <<>>,
     sent |-> t.sent, reply |-> reply, before |-> cache,
     updated |-> u.updated, supplied |-> u.supplied, updChanged |-> u.changed,
     follows |-> t.follows, first |-> t.first, afterPress |-> FALSE,
     repeat |-> (u.updated /\ Repeats(u.supplied)),
     gotten |-> t.changed, error |-> "none"]

\* Whether the latest step is a successfully handled S:BTN <id> PRESS
IsPress(e) ==
    e.kind = "push" /\ e.op = "BTN" /\ e.outcome = "none" /\ e.arg = <<"PRESS">>

\* Whether the call now starting directly follows a successful set_state(Down)
FollowsSetDown ==
    /\ ev.kind = "call"
    /\ ev.op \in {"set_state", "press"}
    /\ ev.outcome = "ok"
    /\ ev.arg[1] = "Down"

\* A call begins: op with its arguments, having sent the commands in sent
Begin(op, pc, arg, sent) ==
    [op |-> op, pc |-> pc, arg |-> arg, changed |-> <<>>, sent |-> sent,
     follows |-> FollowsSetDown,
     first |-> (op = "fetch_state" /\ ~fetched)]

(***************************************************************************)
(* Pushed status: Controller._handle_status_event hands the event to the   *)
(* object's handle_category_status and emits the changes.                  *)
(***************************************************************************)
PushStatus(e) ==
    LET r == HandleCategoryStatus(cache, e.category, e.args)
    IN  /\ cache' = r.cache
        /\ ev' = [kind |-> "push", op |-> e.category, arg |-> e.args,
                  outcome |-> r.raised, result |-> NoValue,
                  changed |-> r.changed, emitted |-> EmitChanges(r.changed),
                  sent |-> <<>>, reply |-> <<>>, before |-> cache,
                  updated |-> r.updated, supplied |-> r.supplied,
                  updChanged |-> r.changed,
                  follows |-> FALSE, first |-> FALSE, afterPress |-> IsPress(ev),
                  repeat |-> (r.updated /\ Repeats(r.supplied)),
                  gotten |-> <<>>, error |-> r.raised]
        /\ UNCHANGED <<hasClient, task, fetched>>

\* A call made without a command client raises ValueError at once
NoClientCall(op, arg) ==
    /\ ev' = Finished(Begin(op, "idle", arg, <<>>), "ValueError", NoValue,
                      <<>>, <<>>, NoUpdate)
    /\ task' = Idle

(***************************************************************************)
(* set_led / clear_led                                                     *)
(***************************************************************************)
CallSetLed(op, a) ==
    /\ task.pc = "idle"
    /\ IF ~hasClient
       THEN NoClientCall(op, a)
       ELSE /\ task' = Begin(op, "await_led", a, <<LedCommand(a[1], a[2], a[3])>>)
            /\ ev' = ev
    /\ UNCHANGED <<cache, hasClient, fetched>>

SetLed(a) == CallSetLed("set_led", a)

ClearLed == CallSetLed("clear_led", ClearLedArgs)

SetLedReply_Optimistic(kind) ==
    /\ task.pc = "await_led"
    /\ task' = Idle
    /\ LET r == SetLedApply(cache, task.arg[1], task.arg[2], task.arg[3])
       IN  /\ cache' = r.cache
           /\ ev' = Finished(task, kind, NoValue, <<>>, <<>>,
                             WithUpdate(SetLedProps(task.arg[1], task.arg[2],
                                                    task.arg[3]), r))
    /\ UNCHANGED <<hasClient, fetched>>

\* The LED command of set_led ended: with its reply, or with an error that
\* the call lets through
SetLedReply(kind) ==
    /\ task.pc = "await_led"
    /\ task' = Idle
    /\ IF kind = "ok"
       THEN LET r == SetLedApply(cache, task.arg[1], task.arg[2], task.arg[3])
            IN  /\ cache' = r.cache
                /\ ev' = Finished(task, "ok", NoValue, <<>>, <<>>,
                                  WithUpdate(SetLedProps(task.arg[1], task.arg[2],
                                                         task.arg[3]), r))
       ELSE /\ ev' = Finished(task, kind, NoValue, <<>>, <<>>, NoUpdate)
            /\ cache' = cache
    /\ UNCHANGED <<hasClient, fetched>>

(***************************************************************************)
(* set_state, press, release, press_and_release                            *)
(***************************************************************************)
SetStateCommand(state, sw) ==
    InvokeCommand(SetStateMethod(sw), <<ToString(StateValue[state])>>)

CallSetState(op, pc, state, sw) ==
    /\ task.pc = "idle"
    /\ IF ~hasClient
       THEN NoClientCall(op, <<state, sw>>)
       ELSE /\ task' = Begin(op, pc, <<state, sw>>, <<SetStateCommand(state, sw)>>)
            /\ ev' = ev
    /\ UNCHANGED <<cache, hasClient, fetched>>

SetState(state, sw) == CallSetState("set_state", "await_set", state, sw)

Press == CallSetState("press", "await_set", "Down", FALSE)

Release == CallSetState("release", "await_set", "Up", FALSE)

PressAndRelease == CallSetState("press_and_release", "await_press", "Down", FALSE)

\* What a successful invoke of method with value does to the cache, as an
\* update record
InvokeUpdateRecord(method, value, r) ==
    IF MethodProperty[method] # NoValue
    THEN WithUpdate(<< <<MethodProperty[method], value>> >>, r)
    ELSE NoUpdate

\* The reply to a SetState invoke arrives
SetStateReply(kind) ==
    /\ task.pc \in {"await_set", "await_press"}
    /\ IF kind = "ok"
       THEN LET r == InvokeUpdate(cache, "SetState", task.arg[1])
                u == InvokeUpdateRecord("SetState", task.arg[1], r)
            IN  /\ cache' = r.cache
                /\ IF task.pc = "await_press"
                   THEN \* press() returned; release() sends its own SetState
                        /\ task' = [task EXCEPT
                                      !.pc = "await_set",
                                      !.arg = <<"Up", FALSE>>,
                                      !.sent = @ \o <<SetStateCommand("Up", FALSE)>>]
                        /\ ev' = IF u.updated
                                 THEN [Finished(task, "ok", NoValue, <<>>, <<>>, u)
                                         EXCEPT !.kind = "step"]
                                 ELSE ev
                   ELSE /\ task' = Idle
                        /\ ev' = Finished(task, "ok", NoValue, <<>>, <<>>, u)
       ELSE /\ task' = Idle
            /\ ev' = Finished(task, kind, NoValue, <<>>, <<>>, NoUpdate)
            /\ cache' = cache
    /\ UNCHANGED <<hasClient, fetched>>

(***************************************************************************)
(* get_state                                                               *)
(***************************************************************************)
GetState(hw) ==
    /\ task.pc = "idle"
    /\ IF ~hasClient
       THEN NoClientCall("get_state", <<hw>>)
       ELSE /\ task' = Begin("get_state", "await_get", <<hw>>,
                             <<InvokeCommand(GetStateMethod(hw), <<>>)>>)
            /\ ev' = ev
    /\ UNCHANGED <<cache, hasClient, fetched>>

\* The reply R:INVOKE <id> <state> Button.GetState arrives with result token tok
GetStateReply(tok) ==
    /\ task.pc = "await_get"
    /\ task' = Idle
    /\ LET d == ParseState(tok)
       IN  IF d.ok
           THEN LET r == InvokeUpdate(cache, "GetState", d.val)
                IN  /\ cache' = r.cache
                    /\ ev' = Finished(task, "ok", d.val, <<>>, <<tok>>,
                                      InvokeUpdateRecord("GetState", d.val, r))
           ELSE /\ ev' = Finished(task, "ConversionError", NoValue, <<>>,
                                  <<tok>>, NoUpdate)
                /\ cache' = cache
    /\ UNCHANGED <<hasClient, fetched>>

GetStateError(kind) ==
    /\ task.pc = "await_get"
    /\ task' = Idle
    /\ ev' = Finished(task, kind, NoValue, <<>>, <<>>, NoUpdate)
    /\ UNCHANGED <<cache, hasClient, fetched>>

(***************************************************************************)
(* fetch_state: the getters bound to a property (Interface.fetch_state),   *)
(* then the GETLED raw command.                                            *)
(***************************************************************************)
\* Errors that Interface.fetch_state catches for one getter
GetterCaught == {"CommandError", "ConversionError"}

\* The errors the GETLED step can meet before its reply is decoded: those of
\* raw_request and the one of Converter.tokenize
GetLedErrorKinds == ErrorKinds \cup {"ConversionError"}

GetLedCaught_Narrow == {"ConversionError", "ValueError"}

\* Errors that ButtonInterface.fetch_state catches around the GETLED step
GetLedCaught == {"CommandError", "ConversionError", "ValueError"}

DecodeGetLed_NoVid(line) ==
    IF Len(line) # 10 THEN [ok |-> FALSE, props |-> <<>>]
    ELSE LedPropsFromTokens(SubSeq(line, 2, 9))

\* Decoding of the tokenized R:GETLED line: exactly ten tokens are unpacked
DecodeGetLed(line) ==
    IF Len(line) # 10 THEN [ok |-> FALSE, props |-> <<>>]
    ELSE LedPropsFromTokens(SubSeq(line, 3, 10))

FetchState ==
    /\ task.pc = "idle"
    /\ fetched' = TRUE
    /\ IF ~hasClient
       THEN \* nothing can be sent: the getters yield nothing, and the LED
            \* step is skipped
            /\ ev' = Finished(Begin("fetch_state", "idle", <<>>, <<>>), "ok",
                              NoValue, <<>>, <<>>, NoUpdate)
            /\ task' = Idle
       ELSE /\ task' = Begin("fetch_state", "await_getter", <<>>,
                             <<InvokeCommand(GetStateMethod(FALSE), <<>>)>>)
            /\ ev' = ev
    /\ UNCHANGED <<cache, hasClient>>

\* The getter finished with the changed names ch: the GETLED command is sent
FetchSendGetLed(ch) ==
    task' = [task EXCEPT !.pc = "await_getled", !.changed = ch,
                         !.sent = @ \o <<GetLedCommand>>]

FetchGetterReply(tok) ==
    /\ task.pc = "await_getter"
    /\ LET d == ParseState(tok)
       IN  IF d.ok
           THEN LET r == InvokeUpdate(cache, "GetState", d.val)
                IN  /\ cache' = r.cache
                    /\ ev' = [Finished(task, "ok", NoValue, r.changed, <<tok>>,
                                       InvokeUpdateRecord("GetState", d.val, r))
                                EXCEPT !.kind = "step"]
                    /\ FetchSendGetLed(r.changed)
           ELSE /\ FetchSendGetLed(<<>>)
                /\ UNCHANGED <<cache, ev>>
    /\ UNCHANGED <<hasClient, fetched>>

FetchGetterError(kind) ==
    /\ task.pc = "await_getter"
    /\ IF kind \in GetterCaught
       THEN /\ FetchSendGetLed(<<>>)
            /\ ev' = ev
       ELSE /\ task' = Idle
            /\ ev' = Finished(task, kind, NoValue, <<>>, <<>>, NoUpdate)
    /\ UNCHANGED <<cache, hasClient, fetched>>

FetchLedReply(line) ==
    /\ task.pc = "await_getled"
    /\ task' = Idle
    /\ LET d == DecodeGetLed(line)
       IN  IF d.ok
           THEN LET r == UpdateProperties(cache, d.props)
                IN  /\ cache' = r.cache
                    /\ ev' = Finished(task, "ok", NoValue,
                                      task.changed \o r.changed, line,
                                      WithUpdate(d.props, r))
           ELSE \* ValueError, caught and logged
                /\ ev' = [Finished(task, "ok", NoValue, task.changed, line,
                                   NoUpdate) EXCEPT !.error = "ValueError"]
                /\ cache' = cache
    /\ UNCHANGED <<hasClient, fetched>>

FetchLedError(kind) ==
    /\ task.pc = "await_getled"
    /\ task' = Idle
    /\ IF kind \in GetLedCaught
       THEN ev' = [Finished(task, "ok", NoValue, task.changed, <<>>, NoUpdate)
                     EXCEPT !.error = kind]
       ELSE ev' = [Finished(task, kind, NoValue, <<>>, <<>>, NoUpdate)
                     EXCEPT !.error = kind]
    /\ UNCHANGED <<cache, hasClient, fetched>>

(***************************************************************************)
(* The command connection (CommandClient), shared by every caller.  Calls  *)
(* pass a mutual-exclusion gate one at a time; the holder sends its line   *)
(* and waits for the next reply line, which must echo its object id and    *)
(* method.  The wire carries no sequence number: seq is bookkeeping of the *)
(* model, never read by the connection.                                    *)
(***************************************************************************)
Callers == {"c1", "c2", "c3"}
NoCaller == "nobody"

\* The most requests the callers make in a run
MaxCalls == 2

\* The lines the callers send: an INVOKE and a raw GETLED for the button
RequestLines == {InvokeCommand(GetStateMethod(FALSE), <<>>), GetLedCommand}

ReplyVerb == [INVOKE |-> "R:INVOKE", GETLED |-> "R:GETLED"]

\* What a request is correlated by: the verb and object id, and for an
\* INVOKE the Interface.Method
RequestKey(line) ==
    IF line[1] = "INVOKE"
    THEN <<ReplyVerb[line[1]], line[2], line[3]>>
    ELSE <<ReplyVerb[line[1]], line[2]>>

\* What a reply line echoes: R:INVOKE <id> <result> <Interface.Method>,
\* R:GETLED <id> <led state ...>
ReplyKey(reply) ==
    IF reply[1] = "R:INVOKE"
    THEN <<reply[1], reply[2], reply[4]>>
    ELSE <<reply[1], reply[2]>>

\* The controller's answer to a request line
ControllerAnswer(line) ==
    IF line[1] = "INVOKE"
    THEN <<"R:INVOKE", line[2], "Up", line[3]>>
    ELSE GetLedLine(LedGood1)

ErrorLine == <<"R:ERROR", "7", "Invalid parameter">>

NoCall == [st |-> "idle", line |-> <<>>, seq |-> 0, behind |-> 0,
           outcome |-> "none", got |-> 0]

CommandIdle ==
    /\ call = [c \in Callers |-> NoCall]
    /\ gateHolder = NoCaller
    /\ gateWaiters = <<>>
    /\ wire = <<>>
    /\ nextSeq = 1
    /\ timedOut = {}

\* The request of the caller holding the gate, when it awaits its reply
Pending == {c \in Callers : c = gateHolder /\ call[c].st = "pending"}

GateFree == gateHolder = NoCaller /\ gateWaiters = <<>>

\* The holder writes its line to the connection
SendRequest(c, line, seq, behind) ==
    /\ call' = [call EXCEPT ![c] = [st |-> "pending", line |-> line,
                                    seq |-> seq, behind |-> behind,
                                    outcome |-> "none", got |-> 0]]
    /\ wire' = Append(wire, [seq |-> seq, line |-> line])
    /\ gateHolder' = c

\* The pending call ends with the given outcome; who holds the gate next is
\* left to the caller of this operator.
EndCall(c, outcome, got) ==
    call' = [call EXCEPT ![c].st = "done", ![c].outcome = outcome,
                         ![c].got = got]

\* invoke / raw_request: take the gate when it is free and send, or wait in
\* line for it
Invoke(c, line) ==
    /\ call[c].st \in {"idle", "done"}
    /\ nextSeq <= MaxCalls
    /\ nextSeq' = nextSeq + 1
    /\ IF GateFree
       THEN /\ SendRequest(c, line, nextSeq, 0)
            /\ UNCHANGED gateWaiters
       ELSE /\ call' = [call EXCEPT ![c] =
                  [st |-> "waiting", line |-> line, seq |-> nextSeq,
                   behind |-> IF gateHolder = NoCaller THEN 0
                              ELSE call[gateHolder].seq,
                   outcome |-> "none", got |-> 0]]
            /\ gateWaiters' = Append(gateWaiters, c)
            /\ UNCHANGED <<gateHolder, wire>>
    /\ UNCHANGED timedOut

\* The released gate passes to the caller that has waited longest
AcquireGate(c) ==
    /\ gateHolder = NoCaller
    /\ gateWaiters # <<>>
    /\ c = Head(gateWaiters)
    /\ gateWaiters' = Tail(gateWaiters)
    /\ SendRequest(c, call[c].line, call[c].seq, call[c].behind)
    /\ UNCHANGED <<nextSeq, timedOut>>

\* The reader task takes a reply line off the connection.  A line that
\* arrives while no call is pending is dropped; one whose echo differs from
\* the pending request fails that call with ProtocolError.
ReadReply(reply, seq) ==
    IF Pending = {}
    THEN UNCHANGED <<call, gateHolder>>
    ELSE LET c == gateHolder
         IN  /\ gateHolder' = NoCaller
             /\ IF reply[1] = "R:ERROR"
                THEN EndCall(c, "CommandError", 0)
                ELSE IF ReplyKey(reply) = RequestKey(call[c].line)
                     THEN EndCall(c, "reply", seq)
                     ELSE EndCall(c, "ProtocolError", 0)

\* The controller answers its oldest unanswered request
ControllerReply ==
    /\ wire # <<>>
    /\ wire' = Tail(wire)
    /\ ReadReply(ControllerAnswer(Head(wire).line), Head(wire).seq)
    /\ UNCHANGED <<gateWaiters, nextSeq, timedOut>>

\* The controller rejects its oldest unanswered request
ControllerError ==
    /\ wire # <<>>
    /\ wire' = Tail(wire)
    /\ ReadReply(ErrorLine, Head(wire).seq)
    /\ UNCHANGED <<gateWaiters, nextSeq, timedOut>>

GateAfterTimeout_Keep(c) == c

\* Who holds the gate once the call of c has timed out
GateAfterTimeout(c) == NoCaller

\* No matching reply within the bounded interval: the call fails with
\* TimeoutError.  The request stays with the controller, which may still
\* answer it.
Timeout(c) ==
    /\ c \in Pending
    /\ EndCall(c, "TimeoutError", 0)
    /\ gateHolder' = GateAfterTimeout(c)
    /\ timedOut' = timedOut \cup {call[c].seq}
    /\ UNCHANGED <<gateWaiters, wire, nextSeq>>

(***************************************************************************)
(* The Vantage client and its controllers.  Two of the controllers the     *)
(* client registers are modelled: the ButtonsController and one plain      *)
(* controller (loads).  The Controller base class is modelled from its     *)
(* documented contract.                                                    *)
(***************************************************************************)
Controllers == {"buttons", "loads"}
NoController == "none"

\* Controller.vantage_types
VantageTypes == [buttons |-> {"Button"}, loads |-> {"Load"}]

\* The STATUS categories the objects of a controller understand
StatusCategories == [buttons |-> <<"BTN", "LED">>, loads |-> <<"LOAD">>]

\* The most calls of Vantage.initialize() and of
\* Vantage.enable_state_monitoring() in a run
MaxInits == 2
MaxEnables == 2

\* The type names with a class in aiovantage.objects (_build_type_map)
TypeMap == {"Button", "Load", "Enclosure"}

\* One <Object> element of the backup file: the tag of its first child
\* ("" when it has no children), the VID, and whether the parser accepts it
Elem(tag, vid, parses) == [tag |-> tag, vid |-> vid, parses |-> parses]

NoFile == [isFile |-> FALSE, wellFormed |-> FALSE, hasObjects |-> FALSE,
           elems |-> <<>>]
EmptyProject == [isFile |-> TRUE, wellFormed |-> TRUE, hasObjects |-> FALSE,
                 elems |-> <<>>]
\* A file that is not well-formed XML (truncated): ElementTree.parse raises
TruncatedFile == [isFile |-> TRUE, wellFormed |-> FALSE, hasObjects |-> FALSE,
                  elems |-> <<>>]
ButtonsOnlyFile ==
    [isFile |-> TRUE, wellFormed |-> TRUE, hasObjects |-> TRUE,
     elems |-> <<Elem("Button", 447, TRUE), Elem("WireLink", 9, TRUE),
                 Elem("", 0, TRUE), Elem("Load", 500, FALSE),
                 Elem("Enclosure", 30, TRUE)>>]
ButtonsAndLoadsFile ==
    [isFile |-> TRUE, wellFormed |-> TRUE, hasObjects |-> TRUE,
     elems |-> <<Elem("Button", 447, TRUE), Elem("Load", 500, TRUE),
                 Elem("Button", 448, TRUE)>>]
SnapshotFiles == {NoFile, EmptyProject, TruncatedFile, ButtonsOnlyFile,
                  ButtonsAndLoadsFile}

Object(vid, type) == [vid |-> vid, type |-> type]
NoObject == [vid |-> 0, type |-> "None"]

\* What the live controller returns from discovery, per controller.  Button
\* 447 is in the backup files and no longer in the live configuration.
LiveObjects ==
    [buttons |-> {Object(448, "Button")},
     loads |-> {Object(500, "Load"), Object(501, "Load")}]

RECURSIVE IterElems_StopAtBad(_)
IterElems_StopAtBad(elems) ==
    IF elems = <<>> THEN <<>>
    ELSE LET e == Head(elems)
             rest == IterElems_StopAtBad(Tail(elems))
         IN  IF e.tag = "" THEN rest
             ELSE IF e.tag \notin TypeMap THEN rest
             ELSE IF ~e.parses THEN <<>>
             ELSE <<Object(e.vid, e.tag)>> \o rest

\* file_loader.iter_objects: the objects of the file, in file order
RECURSIVE IterElems(_)
IterElems(elems) ==
    IF elems = <<>> THEN <<>>
    ELSE LET e == Head(elems)
             rest == IterElems(Tail(elems))
         IN  IF e.tag = "" THEN rest
             ELSE IF e.tag \notin TypeMap THEN rest
             ELSE IF ~e.parses THEN rest
             ELSE <<Object(e.vid, e.tag)>> \o rest

IterObjects(f) == IF ~f.hasObjects THEN <<>> ELSE IterElems(f.elems)

\* The most <Object> records in a file handed to iter_objects alone
MaxElems == 3

\* The kinds of <Object> record: a button and a load that parse, a load
\* that does not, a type without a class, a record without a child
ElemKinds == {Elem("Button", 447, TRUE), Elem("Load", 500, TRUE),
              Elem("Load", 501, FALSE), Elem("WireLink", 9, TRUE),
              Elem("", 0, TRUE)}

\* The files handed to iter_objects: well-formed or not, with or without an
\* <Objects> section
LoaderFiles ==
    {[isFile |-> TRUE, wellFormed |-> w, hasObjects |-> h, elems |-> e] :
        w \in BOOLEAN, h \in BOOLEAN,
        e \in UNION {[1..n -> ElemKinds] : n \in 0..MaxElems}}

NotLoaded == loaded = [called |-> FALSE, objects |-> <<>>, raised |-> "none"]

\* iter_objects(path), run to its end: ElementTree.parse raises on a file
\* that is not well-formed, otherwise the objects are yielded
IterObjectsCall ==
    /\ ~loaded.called
    /\ loaded' = IF ~file.wellFormed
                 THEN [called |-> TRUE, objects |-> <<>>,
                       raised |-> "ParseError"]
                 ELSE [called |-> TRUE, objects |-> IterObjects(file),
                       raised |-> "none"]

TypeToController_Crossed(type) ==
    IF type = "Button" THEN "loads"
    ELSE IF type = "Load" THEN "buttons"
    ELSE NoController

\* type_to_controller.get(obj.vantage_type())
TypeToController(type) ==
    IF \E c \in Controllers : type \in VantageTypes[c]
    THEN CHOOSE c \in Controllers : type \in VantageTypes[c]
    ELSE NoController

\* The registry of a controller with obj stored under its id
Store(objects, obj) == {o \in objects : o.vid # obj.vid} \cup {obj}

\* Controller.inject: store the object and mark the controller populated.
\* st holds the registries, the marks and the injected ids.
ControllerInject(st, c, obj) ==
    [registry |-> [st.registry EXCEPT ![c] = Store(@, obj)],
     initialized |-> [st.initialized EXCEPT ![c] = TRUE],
     injectedInto |-> [st.injectedInto EXCEPT ![c] = @ \cup {obj.vid}]]

\* The loop of Vantage._inject_from_file over the objects of the file
RECURSIVE InjectAll(_, _)
InjectAll(objs, st) ==
    IF objs = <<>> THEN st
    ELSE LET c == TypeToController(Head(objs).type)
         IN  InjectAll(Tail(objs),
                       IF c # NoController
                       THEN ControllerInject(st, c, Head(objs))
                       ELSE st)

InjectFromFile_FirstOnly(st) ==
    IF IterObjects(file) = <<>> THEN st
    ELSE InjectAll(<<Head(IterObjects(file))>>, st)

\* Vantage._inject_from_file: every object of the file goes to the
\* controller of its type
InjectFromFile(st) == InjectAll(IterObjects(file), st)

\* vid in controller, controller[vid]
ControllerContains(c, vid) == \E o \in registry[c] : o.vid = vid
ControllerGetItem(c, vid) == CHOOSE o \in registry[c] : o.vid = vid

VantageContains_All(vid) == \A c \in Controllers : ControllerContains(c, vid)

\* Vantage.__contains__
VantageContains(vid) == \E c \in Controllers : ControllerContains(c, vid)

\* What stands for the KeyError raised by a lookup
KeyErrorRaised == [vid |-> 0, type |-> "KeyError"]

\* Vantage.__getitem__: the object of the first controller that holds the
\* id, or a KeyError
VantageGetItem(vid) ==
    IF \E c \in Controllers : ControllerContains(c, vid)
    THEN ControllerGetItem(CHOOSE c \in Controllers : ControllerContains(c, vid), vid)
    ELSE KeyErrorRaised

VantageGet_Raises(vid) == VantageGetItem(vid)

\* Vantage.get: the object, or None (NoObject) for a KeyError
VantageGet(vid) ==
    IF VantageGetItem(vid) = KeyErrorRaised THEN NoObject
    ELSE VantageGetItem(vid)

\* Vantage.__iter__: the objects it yields (the order is that of a set)
VantageIter == UNION {registry[c] : c \in Controllers}

NoInit == [ran |-> FALSE, hadInjected |-> FALSE, queried |-> FALSE]
NoOpts == [fetch_state |-> FALSE, enable_state_monitoring |-> FALSE]

\* clientCall: op is the client-level operation, st is "running" while its
\* gather is awaited and then "returned" or "raised"; launched says that the
\* operation was started on the controllers, error names what was raised.
NoClientOp == [op |-> "none", st |-> "none", launched |-> FALSE,
               error |-> "none"]
Launched(op) == [op |-> op, st |-> "running", launched |-> TRUE,
                 error |-> "none"]

ClientIdle ==
    /\ registry = [c \in Controllers |-> {}]
    /\ initialized = [c \in Controllers |-> FALSE]
    /\ injectedInto = [c \in Controllers |-> {}]
    /\ job = [c \in Controllers |-> "idle"]
    /\ opts = NoOpts
    /\ lastInit = [c \in Controllers |-> NoInit]
    /\ statusType = [c \in Controllers |-> "None"]
    /\ monitoring = [c \in Controllers |-> FALSE]
    /\ subs = <<>>
    /\ statusUnsubs = [c \in Controllers |-> <<>>]
    /\ inits = 0
    /\ enables = 0
    /\ clientCall = NoClientOp
    /\ stateFetched = [c \in Controllers |-> {}]

InitClientPart ==
    /\ file \in SnapshotFiles
    /\ enhancedLog \in BOOLEAN
    /\ ClientIdle

\* The operation of a controller has ended, by returning or by raising
JobOver(c) == job[c] \in {"idle", "failed"}

NoOperation == \A c \in Controllers : JobOver(c)

\* A client-level operation is called when the one before is over
CanCall == clientCall.st # "running" /\ NoOperation

\* Where a controller's initialize() goes once its objects are known
AfterPopulate(o) ==
    IF o.fetch_state THEN "fetch_state"
    ELSE IF o.enable_state_monitoring THEN "enable"
    ELSE "idle"

AfterFetch(o) == IF o.enable_state_monitoring THEN "enable" ELSE "idle"

\* Vantage.initialize: load the local config file when there is one, then
\* start initialize() on every controller.  A file that is not well-formed
\* makes ElementTree.parse raise out of _inject_from_file, before any
\* controller is started.
VantageInitialize(fetch, enable) ==
    /\ CanCall
    /\ inits < MaxInits
    /\ inits' = inits + 1
    /\ opts' = [fetch_state |-> fetch, enable_state_monitoring |-> enable]
    /\ IF file.isFile /\ ~file.wellFormed
       THEN /\ clientCall' = [op |-> "initialize", st |-> "raised",
                              launched |-> FALSE, error |-> "ParseError"]
            /\ job' = [c \in Controllers |-> "idle"]
            /\ UNCHANGED <<registry, initialized, injectedInto>>
       ELSE /\ LET st == [registry |-> registry, initialized |-> initialized,
                          injectedInto |-> injectedInto]
                   new == IF file.isFile THEN InjectFromFile(st) ELSE st
               IN  /\ registry' = new.registry
                   /\ initialized' = new.initialized
                   /\ injectedInto' = new.injectedInto
            /\ clientCall' = Launched("initialize")
            /\ job' = [c \in Controllers |-> "initialize"]
    /\ UNCHANGED <<file, enhancedLog, lastInit, statusType, monitoring, subs,
                   statusUnsubs, enables, stateFetched>>

\* Controller.initialize: a populated controller skips discovery, any other
\* queries the controller for the objects of its types
ControllerInitialize(c) ==
    /\ job[c] = "initialize"
    /\ lastInit' = [lastInit EXCEPT ![c] =
           [ran |-> TRUE, hadInjected |-> injectedInto[c] # {},
            queried |-> ~initialized[c]]]
    /\ job' = [job EXCEPT ![c] =
           IF initialized[c] THEN AfterPopulate(opts) ELSE "discovering"]
    /\ UNCHANGED <<file, enhancedLog, registry, initialized, injectedInto, opts,
                   statusType, monitoring, subs, statusUnsubs, inits, enables,
                   clientCall, stateFetched>>

\* The discovery query of a controller is answered
RECURSIVE StoreAll(_, _)
StoreAll(objects, new) ==
    IF new = {} THEN objects
    ELSE LET o == CHOOSE x \in new : TRUE
         IN  StoreAll(Store(objects, o), new \ {o})

DiscoveryReply(c) ==
    /\ job[c] = "discovering"
    /\ registry' = [registry EXCEPT ![c] = StoreAll(@, LiveObjects[c])]
    /\ job' = [job EXCEPT ![c] = AfterPopulate(opts)]
    /\ UNCHANGED <<file, enhancedLog, initialized, injectedInto, opts, lastInit,
                   statusType, monitoring, subs, statusUnsubs, inits, enables,
                   clientCall, stateFetched>>

\* The discovery query of a controller fails: its initialize() raises
DiscoveryFailure(c) ==
    /\ job[c] = "discovering"
    /\ job' = [job EXCEPT ![c] = "failed"]
    /\ UNCHANGED <<file, enhancedLog, registry, initialized, injectedInto, opts,
                   lastInit, statusType, monitoring, subs, statusUnsubs, inits,
                   enables, clientCall, stateFetched>>

\* await asyncio.gather(...) returns once every controller's operation has
\* returned
VantageReturn ==
    /\ clientCall.st = "running"
    /\ \A c \in Controllers : job[c] = "idle"
    /\ clientCall' = [clientCall EXCEPT !.st = "returned"]
    /\ UNCHANGED <<file, enhancedLog, registry, initialized, injectedInto, job,
                   opts, lastInit, statusType, monitoring, subs, statusUnsubs,
                   inits, enables, stateFetched>>

\* await asyncio.gather(...), called without return_exceptions, raises the
\* exception of a controller's operation as soon as that operation has
\* raised; the operations of the other controllers are not cancelled and
\* are not waited for.
VantageRaise(c) ==
    /\ clientCall.st = "running"
    /\ job[c] = "failed"
    /\ clientCall' = [clientCall EXCEPT !.st = "raised", !.error = c]
    /\ UNCHANGED <<file, enhancedLog, registry, initialized, injectedInto, job,
                   opts, lastInit, statusType, monitoring, subs, statusUnsubs,
                   inits, enables, stateFetched>>

\* Vantage.fetch_state: start fetch_state() on every controller
VantageFetchState ==
    /\ CanCall
    /\ \E c \in Controllers : registry[c] # {}
    /\ job' = [c \in Controllers |-> "fetch_state"]
    /\ opts' = NoOpts
    /\ clientCall' = Launched("fetch_state")
    /\ UNCHANGED <<file, enhancedLog, registry, initialized, injectedInto,
                   lastInit, statusType, monitoring, subs, statusUnsubs, inits,
                   enables, stateFetched>>

Vids(objects) == {o.vid : o \in objects}

\* The objects of a controller whose fetch_state() raises in one round: none
\* or one of them
FetchFailures(c) == {{}} \cup {{v} : v \in Vids(registry[c])}

\* Controller.fetch_state: the state of every object is fetched; an object
\* whose fetch raises is logged and keeps what it had.  The registry is not
\* touched.
ControllerFetchState(c) ==
    /\ job[c] = "fetch_state"
    /\ \E lost \in FetchFailures(c) :
           stateFetched' = [stateFetched EXCEPT ![c] =
                                @ \cup (Vids(registry[c]) \ lost)]
    /\ job' = [job EXCEPT ![c] = AfterFetch(opts)]
    /\ UNCHANGED <<file, enhancedLog, registry, initialized, injectedInto, opts,
                   lastInit, statusType, monitoring, subs, statusUnsubs, inits,
                   enables, clientCall>>

Sub(c, cat) == [ctl |-> c, cat |-> cat]

\* Controller.enable_state_monitoring.  m holds the controller's status
\* type, its monitoring flag, its stored unsubscribe functions and the
\* subscriptions of the event stream.  A call while monitoring is enabled
\* does nothing.
BaseEnableStateMonitoring(c, m) ==
    IF m.monitoring THEN m
    ELSE LET t == IF enhancedLog THEN "OBJECT" ELSE "CATEGORY"
             new == IF t = "OBJECT"
                    THEN <<Sub(c, "ENHANCED_LOG")>>
                    ELSE [i \in 1..Len(StatusCategories[c]) |->
                             Sub(c, StatusCategories[c][i])]
         IN  [statusType |-> t, monitoring |-> TRUE,
              subs |-> m.subs \o new, unsubs |-> m.unsubs \o new]

ButtonsEnableStateMonitoring_NotStored(c, m) ==
    LET b == BaseEnableStateMonitoring(c, m)
    IN  IF b.statusType = "OBJECT"
        THEN [b EXCEPT !.subs = Append(@, Sub(c, "LED"))]
        ELSE b

\* ButtonsController.enable_state_monitoring
ButtonsEnableStateMonitoring(c, m) ==
    LET b == BaseEnableStateMonitoring(c, m)
    IN  IF b.statusType = "OBJECT"
        THEN [b EXCEPT !.subs = Append(@, Sub(c, "LED")),
                       !.unsubs = Append(@, Sub(c, "LED"))]
        ELSE b

EnableStateMonitoring(c, m) ==
    IF c = "buttons" THEN ButtonsEnableStateMonitoring(c, m)
    ELSE BaseEnableStateMonitoring(c, m)

\* Vantage.enable_state_monitoring: start it on every controller
VantageEnableStateMonitoring ==
    /\ CanCall
    /\ enables < MaxEnables
    /\ enables' = enables + 1
    /\ job' = [c \in Controllers |-> "enable"]
    /\ opts' = NoOpts
    /\ clientCall' = Launched("enable_state_monitoring")
    /\ UNCHANGED <<file, enhancedLog, registry, initialized, injectedInto,
                   lastInit, statusType, monitoring, subs, statusUnsubs, inits,
                   stateFetched>>

ControllerEnable(c) ==
    /\ job[c] = "enable"
    /\ LET m == EnableStateMonitoring(c,
                   [statusType |-> statusType[c], monitoring |-> monitoring[c],
                    subs |-> subs, unsubs |-> statusUnsubs[c]])
       IN  /\ statusType' = [statusType EXCEPT ![c] = m.statusType]
           /\ monitoring' = [monitoring EXCEPT ![c] = m.monitoring]
           /\ subs' = m.subs
           /\ statusUnsubs' = [statusUnsubs EXCEPT ![c] = m.unsubs]
    /\ job' = [job EXCEPT ![c] = "idle"]
    /\ UNCHANGED <<file, enhancedLog, registry, initialized, injectedInto, opts,
                   lastInit, inits, enables, clientCall, stateFetched>>

\* An unsubscribe function removes the subscription it was returned for
RECURSIVE RemoveOne(_, _)
RemoveOne(seq, x) ==
    IF seq = <<>> THEN <<>>
    ELSE IF Head(seq) = x THEN Tail(seq)
    ELSE <<Head(seq)>> \o RemoveOne(Tail(seq), x)

RECURSIVE Unsubscribe(_, _)
Unsubscribe(seq, unsubs) ==
    IF unsubs = <<>> THEN seq
    ELSE Unsubscribe(RemoveOne(seq, Head(unsubs)), Tail(unsubs))

\* Vantage.disable_state_monitoring: start it on every controller
VantageDisableStateMonitoring ==
    /\ CanCall
    /\ \E c \in Controllers : monitoring[c]
    /\ job' = [c \in Controllers |-> "disable"]
    /\ opts' = NoOpts
    /\ clientCall' = Launched("disable_state_monitoring")
    /\ UNCHANGED <<file, enhancedLog, registry, initialized, injectedInto,
                   lastInit, statusType, monitoring, subs, statusUnsubs, inits,
                   enables, stateFetched>>

\* Controller.disable_state_monitoring: call every stored unsubscribe
\* function and clear the list
ControllerDisable(c) ==
    /\ job[c] = "disable"
    /\ subs' = Unsubscribe(subs, statusUnsubs[c])
    /\ statusUnsubs' = [statusUnsubs EXCEPT ![c] = <<>>]
    /\ monitoring' = [monitoring EXCEPT ![c] = FALSE]
    /\ job' = [job EXCEPT ![c] = "idle"]
    /\ UNCHANGED <<file, enhancedLog, registry, initialized, injectedInto, opts,
                   lastInit, statusType, inits, enables, clientCall,
                   stateFetched>>

(***************************************************************************)
(* The event stream (EventStream): a connection of its own, a read loop,   *)
(* and the callbacks registered with subscribe_status.  The controller     *)
(* pushes a status line of a category only while that category is enabled  *)
(* on the connection.  The callback of the ButtonsController hands the line *)
(* to the button's handle_category_status.                                 *)
(***************************************************************************)
Categories == {"BTN", "LED"}

\* Who registers: the ButtonsController (_handle_status_event) and one
\* subscriber from outside
StatusCallbacks == {"buttons", "other"}

\* The most registrations and pushed lines, taken together, in a run
MaxStimuli == 4

\* The status lines the controller pushes for the button
EventLines ==
    {[category |-> "BTN", args |-> a] :
        a \in {<<"PRESS">>, <<"RELEASE">>, <<"HOLD">>, <<>>}}
    \cup {[category |-> "LED", args |-> a] :
        a \in {LedGood1, LedShort, LedNotInt, LedBadBlink}}

EventsIdle ==
    /\ esSubs = <<>>
    /\ esNext = 1
    /\ esConn = "connected"
    /\ esLoop = "running"
    /\ esEnabled = {}
    /\ esWire = <<>>
    /\ esArrived = 0
    /\ esLog = <<>>

\* The categories some registration asks for
WantedCategories(regs) == {regs[i].cat : i \in 1..Len(regs)}

\* subscribe_status(callback, category): the registration is stored behind
\* those made before, and the category is enabled on the wire when the
\* connection is up.  survived says whether the connection has dropped and
\* come back since the registration was made.
SubscribeStatus(cb, cat) ==
    /\ (esNext - 1) + esArrived < MaxStimuli
    /\ esNext' = esNext + 1
    /\ esSubs' = Append(esSubs, [id |-> esNext, cb |-> cb, cat |-> cat,
                                 survived |-> FALSE])
    /\ esEnabled' = IF esConn = "connected" THEN esEnabled \cup {cat}
                    ELSE esEnabled
    /\ UNCHANGED <<esConn, esLoop, esWire, esArrived, esLog, cache>>

RECURSIVE WithoutId(_, _)
WithoutId(regs, id) ==
    IF regs = <<>> THEN <<>>
    ELSE IF Head(regs).id = id THEN Tail(regs)
    ELSE <<Head(regs)>> \o WithoutId(Tail(regs), id)

\* The unsubscribe function of the registration id
UnsubscribeStatus(id) ==
    /\ id \in 1..(esNext - 1)
    /\ esSubs' = WithoutId(esSubs, id)
    /\ UNCHANGED <<esNext, esConn, esLoop, esEnabled, esWire, esArrived, esLog,
                   cache>>

\* The controller pushes a line of an enabled category
ControllerPush(line) ==
    /\ esConn = "connected"
    /\ line.category \in esEnabled
    /\ (esNext - 1) + esArrived < MaxStimuli
    /\ esArrived' = esArrived + 1
    /\ esWire' = Append(esWire, [n |-> esArrived + 1,
                                 category |-> line.category,
                                 args |-> line.args])
    /\ UNCHANGED <<esSubs, esNext, esConn, esLoop, esEnabled, esLog,
                   cache>>

\* One callback runs on a line.  The ButtonsController's callback hands the
\* line to the button; the other subscriber only takes note of it.
RunCallback(cb, c, line) ==
    IF cb = "buttons"
    THEN LET h == HandleCategoryStatus(c, line.category, line.args)
         IN  [cache |-> h.cache, changed |-> h.changed, raised |-> h.raised]
    ELSE [cache |-> c, changed |-> <<>>, raised |-> "none"]

DispatchOrder_Reversed(regs) == [i \in 1..Len(regs) |-> regs[Len(regs) + 1 - i]]

\* The order in which the registrations are run on a line
DispatchOrder(regs) == regs

LoopAfterError_Abort(exc) == "aborted"

\* What becomes of the read loop when a callback raised on a line: the
\* error is logged and the loop goes on
LoopAfterError(exc) == "running"

\* The registrations matching the line's category run one after another;
\* d holds the button's cache, the delivery log and the state of the loop.
RECURSIVE Dispatch(_, _, _)
Dispatch(regs, line, d) ==
    IF regs = <<>> \/ d.loop # "running" THEN d
    ELSE IF Head(regs).cat # line.category THEN Dispatch(Tail(regs), line, d)
    ELSE LET r == Head(regs)
             res == RunCallback(r.cb, d.cache, line)
             entry == [n |-> line.n, id |-> r.id, cb |-> r.cb,
                       survived |-> r.survived, raised |-> res.raised,
                       changed |-> res.changed]
         IN  Dispatch(Tail(regs), line,
                      [cache |-> res.cache, log |-> Append(d.log, entry),
                       loop |-> IF res.raised = "none" THEN d.loop
                                ELSE LoopAfterError(res.raised)])

\* The read loop takes the next line off the connection and dispatches it
ReadLine ==
    /\ esConn = "connected"
    /\ esLoop = "running"
    /\ esWire # <<>>
    /\ esWire' = Tail(esWire)
    /\ LET d == Dispatch(DispatchOrder(esSubs), Head(esWire),
                         [cache |-> cache, log |-> esLog, loop |-> esLoop])
       IN  /\ cache' = d.cache
           /\ esLog' = d.log
           /\ esLoop' = d.loop
    /\ UNCHANGED <<esSubs, esNext, esConn, esEnabled, esArrived>>

\* The connection drops: the unread lines and what was enabled on it are gone
Disconnect ==
    /\ esConn = "connected"
    /\ esConn' = "disconnected"
    /\ esWire' = <<>>
    /\ esEnabled' = {}
    /\ UNCHANGED <<esSubs, esNext, esLoop, esArrived, esLog, cache>>

ReplayEnablement_None(regs) == {}

\* What the dispatcher enables again on a new connection
ReplayEnablement(regs) == WantedCategories(regs)

\* The reconnect loop gets a new connection
Reconnect ==
    /\ esConn = "disconnected"
    /\ esConn' = "connected"
    /\ esEnabled' = ReplayEnablement(esSubs)
    /\ esSubs' = [i \in 1..Len(esSubs) |-> [esSubs[i] EXCEPT !.survived = TRUE]]
    /\ UNCHANGED <<esNext, esLoop, esWire, esArrived, esLog,
                   cache>>

(***************************************************************************)
(* Vantage.subscribe: the client-wide subscription to the events the       *)
(* controllers emit.  Vantage.subscribe is in __init__.py; the             *)
(* controllers' subscribe and their emission of events follow the          *)
(* description of the Controller.                                          *)
(***************************************************************************)
EventTypes == {"ObjectUpdated", "ObjectAdded"}

\* The callbacks of the subscribers; the second one raises whenever it runs
EventCallbacks == {"steady", "raising"}

\* The pushed lines that make the buttons controller update its button
UpdateLines ==
    {[category |-> "BTN", args |-> a] : a \in {<<"PRESS">>, <<"RELEASE">>}}
    \cup {[category |-> "LED", args |-> a] : a \in {LedGood1, LedGood2}}

NoSubEvent ==
    [kind |-> "none", handle |-> 0, again |-> FALSE, before |-> <<>>,
     ctl |-> NoController, names |-> <<>>, log |-> <<>>]

SubscribeIdle ==
    /\ subHandles = <<>>
    /\ ctlSubs = [c \in Controllers |-> <<>>]
    /\ emits = 0
    /\ subEv = NoSubEvent

\* controller.subscribe(event_type, callback): the registration is stored
\* behind those made before; h stands for the unsubscribe function returned
ControllerSubscribe(q, h, type, cb) ==
    Append(q, [handle |-> h, type |-> type, cb |-> cb])

RECURSIVE WithoutCallback(_, _)
WithoutCallback(q, r) ==
    IF q = <<>> THEN <<>>
    ELSE IF Head(q).type = r.type /\ Head(q).cb = r.cb THEN Tail(q)
    ELSE <<Head(q)>> \o WithoutCallback(Tail(q), r)

RECURSIVE WithoutHandle(_, _)
WithoutHandle(q, r) ==
    IF q = <<>> THEN <<>>
    ELSE IF Head(q).handle = r.handle THEN Tail(q)
    ELSE <<Head(q)>> \o WithoutHandle(Tail(q), r)

\* The unsubscribe function a controller returned is called: its own
\* registration is removed if it is still there
ControllerUnsubscribe(q, r) == WithoutHandle(q, r)

\* The controllers Vantage.subscribe registers the callback with
SubscribedControllers == Controllers

\* Vantage.subscribe(event_type, callback)
VantageSubscribe(type, cb) ==
    /\ Len(subHandles) + emits < MaxStimuli
    /\ LET h == Len(subHandles) + 1
       IN  /\ subHandles' = Append(subHandles, [handle |-> h, type |-> type,
                                                cb |-> cb, called |-> FALSE])
           /\ ctlSubs' = [c \in Controllers |->
                            IF c \in SubscribedControllers
                            THEN ControllerSubscribe(ctlSubs[c], h, type, cb)
                            ELSE ctlSubs[c]]
           /\ subEv' = [NoSubEvent EXCEPT !.kind = "subscribe", !.handle = h]
    /\ UNCHANGED <<emits, cache>>

\* The unsubscribe function returned by Vantage.subscribe is called: it
\* calls the unsubscribe function of every controller
VantageUnsubscribe(h) ==
    /\ h \in 1..Len(subHandles)
    /\ ctlSubs' = [c \in Controllers |->
                     IF c \in SubscribedControllers
                     THEN ControllerUnsubscribe(ctlSubs[c], subHandles[h])
                     ELSE ctlSubs[c]]
    /\ subHandles' = [subHandles EXCEPT ![h].called = TRUE]
    /\ subEv' = [NoSubEvent EXCEPT !.kind = "unsubscribe", !.handle = h,
                                   !.again = subHandles[h].called,
                                   !.before = ctlSubs]
    /\ UNCHANGED <<emits, cache>>

EmitAfterError_Stop(exc) == FALSE

\* Whether the emission goes on to the next subscriber after one raised
EmitAfterError(exc) == TRUE

\* One event is handed to the subscribers of its type, one after another
RECURSIVE EmitOne(_, _, _, _)
EmitOne(q, type, name, log) ==
    IF q = <<>> THEN log
    ELSE IF Head(q).type # type THEN EmitOne(Tail(q), type, name, log)
    ELSE LET r == Head(q)
             exc == IF r.cb = "raising" THEN "Exception" ELSE "none"
             entry == [name |-> name, handle |-> r.handle, cb |-> r.cb,
                       raised |-> exc]
         IN  IF exc = "none" \/ EmitAfterError(exc)
             THEN EmitOne(Tail(q), type, name, Append(log, entry))
             ELSE Append(log, entry)

\* One ObjectUpdated event for each changed property name
RECURSIVE DeliverChanges(_, _, _)
DeliverChanges(q, names, log) ==
    IF names = <<>> THEN log
    ELSE DeliverChanges(q, Tail(names),
                        EmitOne(q, "ObjectUpdated", Head(names), log))

\* The buttons controller handles a pushed status line for its button and
\* emits the changes of the button's cache
ButtonsUpdate(line) ==
    /\ Len(subHandles) + emits < MaxStimuli
    /\ emits' = emits + 1
    /\ LET h == HandleCategoryStatus(cache, line.category, line.args)
       IN  /\ cache' = h.cache
           /\ subEv' = [NoSubEvent EXCEPT
                          !.kind = "emit", !.ctl = "buttons",
                          !.names = EmitChanges(h.changed),
                          !.log = DeliverChanges(ctlSubs["buttons"],
                                                 EmitChanges(h.changed),
                                                 <<>>)]
    /\ UNCHANGED <<subHandles, ctlSubs>>

\* The loads controller emits the change of the level of one of its loads
LoadsUpdate ==
    /\ Len(subHandles) + emits < MaxStimuli
    /\ emits' = emits + 1
    /\ subEv' = [NoSubEvent EXCEPT
                   !.kind = "emit", !.ctl = "loads", !.names = <<"level">>,
                   !.log = DeliverChanges(ctlSubs["loads"], <<"level">>,
                                          <<>>)]
    /\ UNCHANGED <<subHandles, ctlSubs, cache>>

(***************************************************************************)
(* Closing the client.  Vantage.close and __aexit__ are in __init__.py;    *)
(* what a closed command connection does to the calls in flight and what   *)
(* stop() does to the event stream's reconnect loop follow the description *)
(* of the concurrency model.                                               *)
(***************************************************************************)
\* How the body of "async with Vantage(...)" ends
BodyOutcomes == {"none", "BodyError"}

\* The callers making calls while the client is closed
CloseCallers == {"c1", "c2"}

\* The calls that have not ended: waiting at the gate or awaiting a reply
InFlightCalls == {c \in Callers : call[c].st \in {"waiting", "pending"}}

Close_NoStop ==
    /\ cfgClosed' = TRUE
    /\ cmdClosed' = TRUE
    /\ UNCHANGED esStopped

\* close(): config_client.close(), command_client.close(),
\* event_stream.stop()
Close ==
    /\ cfgClosed' = TRUE
    /\ cmdClosed' = TRUE
    /\ esStopped' = TRUE

\* Vantage.close()
VantageClose ==
    /\ Close
    /\ UNCHANGED <<exited, commandVars, eventVars>>

\* Vantage.__aexit__: close, then raise again what the body raised
AExit(exc) ==
    /\ exited = "no"
    /\ Close
    /\ exited' = IF exc = "none" THEN "returned" ELSE "raised"
    /\ UNCHANGED <<commandVars, eventVars>>

\* A call in flight finds the command connection closed and fails
FailClosed(c) ==
    /\ cmdClosed
    /\ c \in InFlightCalls
    /\ EndCall(c, "ConnectionClosed", 0)
    /\ gateHolder' = IF gateHolder = c THEN NoCaller ELSE gateHolder
    /\ gateWaiters' = SelectSeq(gateWaiters, LAMBDA w : w # c)
    /\ UNCHANGED <<wire, nextSeq, timedOut, eventVars, closeVars>>

\* The reconnect loop finds that the event stream was stopped and ends
StopLoop ==
    /\ esStopped
    /\ esConn # "stopped"
    /\ esConn' = "stopped"
    /\ esEnabled' = {}
    /\ esWire' = <<>>
    /\ UNCHANGED <<esSubs, esNext, esLoop, esArrived, esLog, commandVars,
                   closeVars>>

(***************************************************************************)
(* The specifications.  Each runs one part and leaves the others idle.     *)
(***************************************************************************)
NotClosed ==
    /\ cfgClosed = FALSE
    /\ cmdClosed = FALSE
    /\ esStopped = FALSE
    /\ exited = "no"

NoSnapshot == file = NoFile /\ enhancedLog = FALSE /\ ClientIdle

InitButton ==
    /\ InitButtonPart /\ CommandIdle /\ NoSnapshot /\ EventsIdle
    /\ SubscribeIdle /\ NotLoaded /\ NotClosed

OnlyButton ==
    UNCHANGED <<commandVars, clientVars, eventVars, subscribeVars,
                loaderVars, closeVars>>

NextButton ==
    \/ OnlyButton /\ \E e \in StatusEvents : PushStatus(e)
    \/ OnlyButton /\ \E a \in SetLedInputs : SetLed(a)
    \/ OnlyButton /\ ClearLed
    \/ OnlyButton /\ \E k \in {"ok"} \cup ErrorKinds : SetLedReply(k)
    \/ OnlyButton /\ \E st \in States, sw \in BOOLEAN : SetState(st, sw)
    \/ OnlyButton /\ Press
    \/ OnlyButton /\ Release
    \/ OnlyButton /\ PressAndRelease
    \/ OnlyButton /\ \E k \in {"ok"} \cup ErrorKinds : SetStateReply(k)
    \/ OnlyButton /\ \E hw \in BOOLEAN : GetState(hw)
    \/ OnlyButton /\ \E tok \in StateTokens : GetStateReply(tok)
    \/ OnlyButton /\ \E k \in ErrorKinds : GetStateError(k)
    \/ OnlyButton /\ FetchState
    \/ OnlyButton /\ \E tok \in StateTokens : FetchGetterReply(tok)
    \/ OnlyButton /\ \E k \in ErrorKinds : FetchGetterError(k)
    \/ OnlyButton /\ \E line \in GetLedLines : FetchLedReply(line)
    \/ OnlyButton /\ \E k \in GetLedErrorKinds : FetchLedError(k)

SpecButton == InitButton /\ [][NextButton]_vars

InitCommand ==
    /\ hasClient = TRUE
    /\ ButtonIdle /\ CommandIdle /\ NoSnapshot /\ EventsIdle /\ SubscribeIdle
    /\ NotLoaded /\ NotClosed

OnlyCommand ==
    UNCHANGED <<buttonVars, clientVars, eventVars, subscribeVars,
                loaderVars, closeVars>>

NextCommand ==
    \/ OnlyCommand /\ \E c \in Callers, line \in RequestLines : Invoke(c, line)
    \/ OnlyCommand /\ \E c \in Callers : AcquireGate(c)
    \/ OnlyCommand /\ ControllerReply
    \/ OnlyCommand /\ ControllerError
    \/ OnlyCommand /\ \E c \in Callers : Timeout(c)

SpecCommand == InitCommand /\ [][NextCommand]_vars

\* A pending call ends within the bounded interval, by a reply or by its
\* timeout, and a released gate is handed to the first waiter: the event
\* loop runs every task that is ready.
FairCommand ==
    /\ SpecCommand
    /\ WF_vars(NextCommand /\ (\E c \in Callers : call[c].st = "pending" /\ call'[c].st = "done"))
    /\ WF_vars(NextCommand /\ (\E c \in Callers : call[c].st = "waiting" /\ call'[c].st = "pending"))

InitClient ==
    /\ hasClient = TRUE
    /\ ButtonIdle /\ CommandIdle /\ InitClientPart /\ EventsIdle
    /\ SubscribeIdle /\ NotLoaded /\ NotClosed

OnlyClient ==
    UNCHANGED <<buttonVars, commandVars, eventVars, subscribeVars,
                loaderVars, closeVars>>

NextClient ==
    \/ OnlyClient /\ \E f \in BOOLEAN, e \in BOOLEAN : VantageInitialize(f, e)
    \/ OnlyClient /\ \E c \in Controllers : ControllerInitialize(c)
    \/ OnlyClient /\ \E c \in Controllers : DiscoveryReply(c)
    \/ OnlyClient /\ \E c \in Controllers : DiscoveryFailure(c)
    \/ OnlyClient /\ VantageFetchState
    \/ OnlyClient /\ \E c \in Controllers : ControllerFetchState(c)
    \/ OnlyClient /\ VantageEnableStateMonitoring
    \/ OnlyClient /\ \E c \in Controllers : ControllerEnable(c)
    \/ OnlyClient /\ VantageDisableStateMonitoring
    \/ OnlyClient /\ \E c \in Controllers : ControllerDisable(c)
    \/ OnlyClient /\ VantageReturn
    \/ OnlyClient /\ \E c \in Controllers : VantageRaise(c)

SpecClient == InitClient /\ [][NextClient]_vars

InitEvents ==
    /\ hasClient = TRUE
    /\ ButtonIdle /\ CommandIdle /\ NoSnapshot /\ EventsIdle /\ SubscribeIdle
    /\ NotLoaded /\ NotClosed

\* The event stream drives the button's cache and nothing else
OnlyEvents ==
    UNCHANGED <<hasClient, task, ev, fetched, commandVars, clientVars,
                subscribeVars, loaderVars, closeVars>>

NextEvents ==
    \/ OnlyEvents /\ \E cb \in StatusCallbacks, cat \in Categories :
                         SubscribeStatus(cb, cat)
    \/ OnlyEvents /\ \E id \in 1..MaxStimuli : UnsubscribeStatus(id)
    \/ OnlyEvents /\ \E line \in EventLines : ControllerPush(line)
    \/ OnlyEvents /\ ReadLine
    \/ OnlyEvents /\ Disconnect
    \/ OnlyEvents /\ Reconnect

SpecEvents == InitEvents /\ [][NextEvents]_vars

InitSubscribe ==
    /\ hasClient = TRUE
    /\ ButtonIdle /\ CommandIdle /\ NoSnapshot /\ EventsIdle /\ SubscribeIdle
    /\ NotLoaded /\ NotClosed

\* The subscriptions and the updates emitted drive the button's cache and
\* nothing else
OnlySubscribe ==
    UNCHANGED <<hasClient, task, ev, fetched, commandVars, clientVars,
                eventVars, loaderVars, closeVars>>

NextSubscribe ==
    \/ OnlySubscribe /\ \E type \in EventTypes, cb \in EventCallbacks :
                            VantageSubscribe(type, cb)
    \/ OnlySubscribe /\ \E h \in 1..MaxStimuli : VantageUnsubscribe(h)
    \/ OnlySubscribe /\ \E line \in UpdateLines : ButtonsUpdate(line)
    \/ OnlySubscribe /\ LoadsUpdate

SpecSubscribe == InitSubscribe /\ [][NextSubscribe]_vars

InitClose ==
    /\ hasClient = TRUE
    /\ ButtonIdle /\ CommandIdle /\ NoSnapshot /\ EventsIdle /\ SubscribeIdle
    /\ NotLoaded /\ NotClosed

\* Closing touches the connections and nothing else
OnlyClose == UNCHANGED <<buttonVars, clientVars, subscribeVars, loaderVars>>

\* Calls are made and answered while the command connection is open, the
\* event connection drops and comes back until the stream is stopped
NextClose ==
    \/ OnlyCommand /\ ~cmdClosed
           /\ \E c \in CloseCallers : Invoke(c, GetLedCommand)
    \/ OnlyCommand /\ ~cmdClosed /\ \E c \in Callers : AcquireGate(c)
    \/ OnlyCommand /\ ~cmdClosed /\ ControllerReply
    \/ OnlyCommand /\ ~cmdClosed /\ \E c \in Callers : Timeout(c)
    \/ OnlyEvents /\ Disconnect
    \/ OnlyEvents /\ ~esStopped /\ Reconnect
    \/ OnlyClose /\ VantageClose
    \/ OnlyClose /\ \E exc \in BodyOutcomes : AExit(exc)
    \/ OnlyClose /\ \E c \in Callers : FailClosed(c)
    \/ OnlyClose /\ StopLoop

SpecClose == InitClose /\ [][NextClose]_vars

\* The event loop runs every task that is ready: a call in flight on a
\* closed connection gets its error, and the stopped reconnect loop ends.
FairClose ==
    /\ SpecClose
    /\ \A c \in Callers : WF_vars(OnlyClose /\ FailClosed(c))
    /\ WF_vars(OnlyClose /\ StopLoop)

InitLoader ==
    /\ hasClient = TRUE
    /\ ButtonIdle /\ CommandIdle /\ EventsIdle /\ SubscribeIdle
    /\ NotLoaded /\ NotClosed
    /\ file \in LoaderFiles /\ enhancedLog = FALSE /\ ClientIdle

\* Reading the file touches nothing else
OnlyLoader ==
    UNCHANGED <<buttonVars, commandVars, clientVars, eventVars,
                subscribeVars, closeVars>>

NextLoader == OnlyLoader /\ IterObjectsCall

SpecLoader == InitLoader /\ [][NextLoader]_vars

(***************************************************************************)
(* Properties of the button part.                                          *)
(***************************************************************************)
\* The names in props whose supplied value differs from the value in c
DifferingNames(c, props) ==
    {props[i][1] : i \in {j \in 1..Len(props) : c[props[j][1]] # props[j][2]}}

\* The value props supplies for name k
SuppliedValue(props, k) ==
    props[CHOOSE i \in 1..Len(props) : props[i][1] = k][2]

SeqToSet(q) == {q[i] : i \in 1..Len(q)}

\* C1: every update_properties call returns exactly the names whose supplied
\* value differs from the value cached just before the call, each once, writes
\* those and nothing else, and returns nothing when it repeats the call made
\* just before.
C1_UpdateReturnsExactlyChanged ==
    ev.updated =>
        LET diff == DifferingNames(ev.before, ev.supplied)
        IN  /\ SeqToSet(ev.updChanged) = diff
            /\ Len(ev.updChanged) = Cardinality(diff)
            /\ \A k \in PropNames :
                 cache[k] = IF k \in diff THEN SuppliedValue(ev.supplied, k)
                            ELSE ev.before[k]
            /\ ev.repeat => ev.updChanged = <<>>

\* C1 witness: set_led called twice with the same arguments
C1_Witness ==
    /\ ev.kind = "call" /\ ev.op = "set_led" /\ ev.outcome = "ok"
    /\ ev.updated /\ ev.repeat
    /\ ev.updChanged = <<>>

\* Whether the latest step is a handled S:BTN event with PRESS or RELEASE
IsBtnEvent ==
    /\ ev.kind = "push" /\ ev.op = "BTN"
    /\ ev.arg \in {<<"PRESS">>, <<"RELEASE">>}

\* C2: a pushed BTN event with PRESS sets the cached state to Down and one with
\* RELEASE sets it to Up; one change event for state is emitted when that value
\* differs from the cached one and none when it is equal, so a PRESS directly
\* after a PRESS emits none.
C2_BtnEventUpdatesStateOnce ==
    IsBtnEvent =>
        LET mapped == IF ev.arg = <<"PRESS">> THEN "Down" ELSE "Up"
        IN  /\ ev.outcome = "none"
            /\ cache.state = mapped
            /\ ev.emitted = IF mapped # ev.before.state THEN <<"state">> ELSE <<>>
            /\ (ev.afterPress /\ ev.arg = <<"PRESS">>) => ev.emitted = <<>>

\* C2 witness: a PRESS handled directly after a PRESS
C2_Witness ==
    /\ IsBtnEvent /\ ev.arg = <<"PRESS">> /\ ev.afterPress
    /\ ev.emitted = <<>> /\ cache.state = "Down"

\* Whether the latest step is a fetch_state that returned after a well-formed
\* R:GETLED <vid> <state> <R1> <G1> <B1> <R2> <G2> <B2> <BlinkRate> line
WireBlinkRates == {BlinkRateValue[m] : m \in BlinkRates}

WellFormedGetLed(line) ==
    /\ Len(line) = 10
    /\ \A i \in 4..9 : line[i] \in IntTokens
    /\ line[10] \in WireBlinkRates

FetchedLed ==
    /\ ev.kind = "call" /\ ev.op = "fetch_state" /\ ev.outcome = "ok"
    /\ WellFormedGetLed(ev.reply)

\* The values a well-formed GETLED line carries
LineActive(line) ==
    <<ParseInt(line[4]).val, ParseInt(line[5]).val, ParseInt(line[6]).val>>
LineInactive(line) ==
    <<ParseInt(line[7]).val, ParseInt(line[8]).val, ParseInt(line[9]).val>>
LineBlink(line) == CHOOSE m \in BlinkRates : BlinkRateValue[m] = line[10]

LedSetFromLine ==
    /\ cache.led_active_color = LineActive(ev.reply)
    /\ cache.led_inactive_color = LineInactive(ev.reply)
    /\ cache.led_blink_rate = LineBlink(ev.reply)

LedUnknown(c) ==
    /\ c.led_active_color = NoColor
    /\ c.led_inactive_color = NoColor
    /\ c.led_blink_rate = NoValue

\* C3 as stated: after a well-formed GETLED reply the three LED properties hold
\* the values of the line, and the first fetch of the button returns exactly the
\* three LED property names.
C3_Original ==
    FetchedLed =>
        /\ LedSetFromLine
        /\ ev.first => ev.changed = LedNames

\* C3 amended: after a well-formed GETLED reply the three LED properties hold
\* the values of the line, and fetch_state returns the names changed by the
\* property getters (state, or nothing) followed by the LED names whose value
\* changed; these are all three LED names when the LED properties were still
\* unknown.
C3_FetchStateLed ==
    FetchedLed =>
        /\ LedSetFromLine
        /\ ev.updated
        /\ SeqToSet(ev.updChanged) = DifferingNames(ev.before, ev.supplied)
        /\ \E getters \in {<<>>, <<"state">>} :
             ev.changed = getters \o ev.updChanged
        /\ LedUnknown(ev.before) => ev.updChanged = LedNames

\* C3 witness: a first fetch returns state and the three LED names
C3_Witness ==
    /\ FetchedLed /\ ev.first
    /\ ev.reply = GetLedLine(LedGood1)
    /\ ev.changed = <<"state">> \o LedNames

SetterOps == {"set_state", "press", "release", "press_and_release"}

\* C4: after a setter completes successfully the cached state equals the value
\* written, whatever the sw flag.
C4_SetterUpdatesCache ==
    (ev.kind = "call" /\ ev.op \in SetterOps /\ ev.outcome = "ok")
        => cache.state = ev.arg[1]

\* Whether the latest step is a get_state() without hw that returned, called
\* directly after a successful set_state(Down)
GetAfterSetDown ==
    /\ ev.kind = "call" /\ ev.op = "get_state" /\ ev.outcome = "ok"
    /\ ev.arg = <<FALSE>>
    /\ ev.follows

\* C5 as stated: a successful set_state(Down) followed by get_state() without
\* hw returns Down and sends no command of its own.
C5_Original ==
    GetAfterSetDown => (ev.result = "Down" /\ ev.sent = <<>>)

\* C5 amended: a successful set_state(Down) followed by get_state() without hw
\* sends exactly one command, INVOKE <vid> Button.GetState, and returns the
\* state in the controller's reply.
C5_GetStateAsksController ==
    GetAfterSetDown =>
        /\ ev.sent = << <<"INVOKE", ToString(ButtonVid), "Button.GetState">> >>
        /\ ev.result = ev.reply[1]
        /\ ev.result \in States

\* C5 witness: the controller reports Down after the set
C5_Witness == GetAfterSetDown /\ ev.result = "Down"

(***************************************************************************)
(* Properties of the command connection.                                   *)
(***************************************************************************)
\* The calls awaiting a reply
InFlight == {c \in Callers : call[c].st = "pending"}

\* A call that returned a reply line got the line the controller wrote for
\* its own request
OwnReply(c) ==
    call[c].st = "done" /\ call[c].outcome = "reply" => call[c].got = call[c].seq

\* C6: under any interleaving of concurrent invoke / raw_request calls on
\* the connection, at most one request is in flight at a time and every call
\* that gets a reply gets the reply to its own request, never that of
\* another call.
C6_SerializedAndCorrelated ==
    /\ Cardinality(InFlight) <= 1
    /\ \A c \in Callers : OwnReply(c)

\* The gate is held only by a call that awaits its reply
GateHeldByPending ==
    gateHolder # NoCaller => call[gateHolder].st = "pending"

\* A call whose request timed out has failed with TimeoutError
TimedOutFailed ==
    \A c \in Callers :
        call[c].st = "done" /\ call[c].seq \in timedOut
            => call[c].outcome = "TimeoutError"

HasSent(c) == call[c].st \in {"pending", "done"}

\* C7: a call that gets no matching reply within the bounded interval fails
\* with TimeoutError and gives up the gate, and every call waiting at the
\* gate eventually sends its request.
C7_TimeoutReleasesGate ==
    /\ [](GateHeldByPending /\ TimedOutFailed)
    /\ \A c \in Callers : (call[c].st = "waiting") ~> HasSent(c)

\* A caller that waited behind a request that timed out has sent its own
C7_Witness ==
    \E c \in Callers : HasSent(c) /\ call[c].behind \in timedOut

(***************************************************************************)
(* Properties of the Vantage client.                                       *)
(***************************************************************************)
\* The ids of the objects the local config file holds for a controller,
\* read off the file
FileVidsFor(c) ==
    IF file.isFile /\ file.hasObjects
    THEN {file.elems[i].vid : i \in {j \in 1..Len(file.elems) :
              file.elems[j].tag \in VantageTypes[c] /\ file.elems[j].parses}}
    ELSE {}

\* C8: a controller into which at least one object was injected before
\* initialize() issues no live discovery query, a controller into which none
\* was injected does; so a controller queries exactly when the local config
\* file holds no object of its types.
C8_InjectedSkipsDiscovery ==
    \A c \in Controllers :
        lastInit[c].ran =>
            /\ lastInit[c].hadInjected => ~lastInit[c].queried
            /\ ~lastInit[c].hadInjected => lastInit[c].queried
            /\ lastInit[c].queried <=> (FileVidsFor(c) = {})

\* One initialize() in which a controller with injected objects skipped
\* discovery and another, with none, queried
C8_Witness ==
    \E c, d \in Controllers :
        /\ lastInit[c].ran /\ lastInit[c].hadInjected /\ ~lastInit[c].queried
        /\ lastInit[d].ran /\ ~lastInit[d].hadInjected /\ lastInit[d].queried

\* The object with this id is visible through the client
Visible(vid) ==
    /\ VantageContains(vid)
    /\ VantageGet(vid) # NoObject
    /\ VantageGet(vid).vid = vid
    /\ \E o \in VantageIter : o.vid = vid

LiveVids == {o.vid : o \in UNION {LiveObjects[c] : c \in Controllers}}

\* C9: an object injected from the local config file is visible through the
\* client (get, in, iteration) in every state after its injection, whatever
\* initialize(), fetch_state() and the monitoring calls did since, also when
\* the live controller does not return it from discovery.
C9_InjectedStaysVisible ==
    /\ \A c \in Controllers : \A vid \in injectedInto[c] : Visible(vid)
    /\ inits > 0 => \A c \in Controllers : \A vid \in FileVidsFor(c) : Visible(vid)

\* An injected object unknown to the live controller, after initialize()
\* ran twice with discovery on the other controller and monitoring was
\* enabled and disabled again
C9_Witness ==
    \E c, d \in Controllers :
        /\ \E vid \in injectedInto[c] : vid \notin LiveVids
        /\ lastInit[d].queried /\ registry[d] # {}
        /\ inits = MaxInits /\ NoOperation
        /\ statusType[c] # "None" /\ ~monitoring[c]

\* C10: enable_state_monitoring called again with no disable in between
\* creates no duplicate subscription: the event stream holds at most one
\* subscription per controller and category, the LED subscription of the
\* ButtonsController included.
C10_NoDuplicateSubscriptions ==
    \A i, j \in 1..Len(subs) : subs[i] = subs[j] => i = j

\* The subscriptions the event stream holds for a controller
SubsOf(q, c) == {i \in 1..Len(q) : q[i].ctl = c}

\* The controller ends its disable_state_monitoring in this step
Disables(c) == job[c] = "disable" /\ job'[c] # "disable"

\* C11: disable_state_monitoring calls every unsubscribe function stored by
\* enable_state_monitoring, the one of the ButtonsController's LED
\* subscription included: the stored list is left empty, the event stream
\* holds no subscription of the controller any more, and the registries and
\* the fetched state of the objects are as they were.
C11_DisableUnsubscribesAll ==
    [][\A c \in Controllers :
          Disables(c) =>
              /\ statusUnsubs'[c] = <<>>
              /\ SubsOf(subs', c) = {}
              /\ stateFetched' = stateFetched
              /\ registry' = registry]_vars

\* The ButtonsController, whose monitoring had added the LED subscription
\* and whose objects had their state fetched, has been disabled
C11_Witness ==
    /\ clientCall.op = "disable_state_monitoring"
    /\ job["buttons"] = "idle"
    /\ statusType["buttons"] = "OBJECT"
    /\ ~monitoring["buttons"]
    /\ statusUnsubs["buttons"] = <<>>
    /\ stateFetched["buttons"] # {}

\* C12: the client-level fan-outs start the operation on every controller
\* and await all of them: when the client-level call has returned or raised,
\* the operation of every controller is over, and an error raised is that of
\* a controller whose operation failed.
C12_JoinAll ==
    clientCall.launched /\ clientCall.st \in {"returned", "raised"} =>
        /\ \A c \in Controllers : JobOver(c)
        /\ clientCall.st = "raised" =>
               clientCall.error \in Controllers /\ job[clientCall.error] = "failed"

\* C13: Vantage.initialize raises only when the discovery step of some
\* controller has failed.
C13_RaisesOnlyOnDiscoveryFailure ==
    clientCall.op = "initialize" /\ clientCall.st = "raised" =>
        \E c \in Controllers : job[c] = "failed" /\ lastInit[c].queried

(***************************************************************************)
(* Properties of fetch_state under failures.                               *)
(***************************************************************************)
\* The latest step is a fetch_state call whose GETLED step met a command
\* error or an error of decoding the reply
GetLedStepFailed ==
    /\ ev.kind = "call"
    /\ ev.op = "fetch_state"
    /\ ev.error \in {"CommandError", "ConversionError", "ValueError"}

\* C14: in fetch_state a command error or a decoding error on the GETLED
\* step is caught: the call raises nothing, returns the names the standard
\* getters changed, and the three LED properties keep the values they had.
C14_GetLedFailureCaught ==
    GetLedStepFailed =>
        /\ ev.outcome = "ok"
        /\ ev.changed = ev.gotten
        /\ \A k \in SeqToSet(LedNames) : cache[k] = ev.before[k]

\* A fetch_state whose getter changed the state, on a button with known LED
\* values, met a command error on GETLED
C14_Witness ==
    /\ GetLedStepFailed
    /\ ev.gotten = <<"state">>
    /\ cache.led_blink_rate # NoValue
    /\ ev.error = "CommandError"

(***************************************************************************)
(* Properties of the event stream.                                         *)
(***************************************************************************)
\* What a registration is, apart from what it has lived through
Registrations(regs) ==
    [i \in 1..Len(regs) |->
        [id |-> regs[i].id, cb |-> regs[i].cb, cat |-> regs[i].cat]]

\* The step is the read loop taking a line off the connection
ReadsLine == esWire # <<>> /\ esWire' = Tail(esWire) /\ esConn' = esConn

\* The step has run the registration r on the line read
Delivered(r) ==
    \E k \in (Len(esLog) + 1)..Len(esLog') :
        esLog'[k].id = r.id /\ esLog'[k].n = Head(esWire).n

\* C15: no registration is lost over disconnects and reconnects: a drop or
\* a new connection leaves the registrations as they were, while the
\* connection is up every category some registration asks for is enabled
\* on the wire, and each line read is run on every registration of its
\* category that has not been unsubscribed.
C15_ReconnectKeepsRegistrations ==
    /\ [][esConn' # esConn =>
            Registrations(esSubs') = Registrations(esSubs)]_vars
    /\ [](esConn = "connected" => WantedCategories(esSubs) \subseteq esEnabled)
    /\ [][ReadsLine =>
            \A i \in 1..Len(esSubs) :
                esSubs[i].cat = Head(esWire).category
                    => Delivered(esSubs[i])]_vars

\* A callback registered before a drop has run on a line pushed after the
\* reconnect
C15_Witness ==
    \E k \in 1..Len(esLog) :
        /\ esLog[k].survived
        /\ \E i \in 1..Len(esSubs) : esSubs[i].id = esLog[k].id

\* The pushed lines a button cannot decode: a BTN event whose argument is
\* missing or is neither PRESS nor RELEASE, an LED event with fewer than 8
\* arguments, with a colour component that is no integer, or with an
\* unknown blink rate
Undecodable(line) ==
    \/ /\ line.category = "BTN"
       /\ (line.args = <<>> \/ line.args[1] \notin {"PRESS", "RELEASE"})
    \/ /\ line.category = "LED"
       /\ line.args \in {LedShort, LedNotInt, LedBadBlink}

\* C16: a pushed line that cannot be decoded is skipped and the read loop
\* goes on: the loop is always running, a line that cannot be decoded
\* leaves the button's cache as it was and is still handed to every
\* registration of its category, and the button's callback raises on a
\* line exactly when the line cannot be decoded.
C16_UndecodableLineSkipped ==
    /\ [](esLoop = "running")
    /\ [][(ReadsLine /\ Undecodable(Head(esWire))) =>
            /\ cache' = cache
            /\ \A i \in 1..Len(esSubs) :
                   esSubs[i].cat = Head(esWire).category
                       => Delivered(esSubs[i])]_vars
    /\ [][ReadsLine =>
            \A k \in (Len(esLog) + 1)..Len(esLog') :
                esLog'[k].cb = "buttons" =>
                    (esLog'[k].raised # "none"
                        <=> Undecodable(Head(esWire)))]_vars

\* The button's callback has raised on a line, and has run without error on
\* a line that arrived after it
C16_Witness ==
    \E k, l \in 1..Len(esLog) :
        /\ esLog[k].cb = "buttons" /\ esLog[k].raised # "none"
        /\ esLog[l].cb = "buttons" /\ esLog[l].raised = "none"
        /\ esLog[k].n < esLog[l].n

\* C17: the callbacks run in the order the lines arrived, and on one line
\* in the order they were registered: the delivery log is ordered by line
\* and, within a line, by registration.
C17_DispatchInOrder ==
    \A k, l \in 1..Len(esLog) :
        k < l =>
            \/ esLog[k].n < esLog[l].n
            \/ esLog[k].n = esLog[l].n /\ esLog[k].id < esLog[l].id

\* Two registrations ran on one line, and one of them on the next line
C17_Witness ==
    \E k, l, m \in 1..Len(esLog) :
        /\ esLog[k].n = esLog[l].n
        /\ esLog[k].id # esLog[l].id
        /\ esLog[m].n > esLog[k].n

(***************************************************************************)
(* Properties of Vantage.subscribe.                                        *)
(***************************************************************************)
\* The subscribe calls for a type whose unsubscribe function has not been
\* called
LiveHandles(type) ==
    {h \in 1..Len(subHandles) :
        subHandles[h].type = type /\ ~subHandles[h].called}

\* How many times the latest emission ran the registration h on the name
Deliveries(name, h) ==
    Cardinality({k \in 1..Len(subEv.log) :
                    subEv.log[k].name = name /\ subEv.log[k].handle = h})

\* C18: when an update changes properties, every subscriber registered for
\* the event type through Vantage.subscribe gets one event for each changed
\* property, from whichever controller owns the object and also when a
\* subscriber before it raised; nobody else gets one.
C18_EveryLiveSubscriberGetsEachChange ==
    subEv.kind = "emit" =>
        /\ \A i \in 1..Len(subEv.names) :
               \A h \in LiveHandles("ObjectUpdated") :
                   Deliveries(subEv.names[i], h) = 1
        /\ \A k \in 1..Len(subEv.log) :
               subEv.log[k].handle \in LiveHandles("ObjectUpdated")

\* A subscriber raised on an event and the subscriber behind it got the
\* same event
C18_Witness ==
    /\ subEv.kind = "emit"
    /\ \E k, l \in 1..Len(subEv.log) :
           /\ k < l
           /\ subEv.log[k].name = subEv.log[l].name
           /\ subEv.log[k].raised # "none"
           /\ subEv.log[l].raised = "none"

\* The registrations of q other than those made by the subscribe call h
OthersThan(q, h) ==
    LET Other(r) == r.handle # h
    IN  SelectSeq(q, Other)

\* The controller c holds a registration made by the subscribe call h
Registered(c, h) == \E i \in 1..Len(ctlSubs[c]) : ctlSubs[c][i].handle = h

\* C20: the unsubscribe function returned by Vantage.subscribe removes the
\* registrations of its own subscribe call from every controller and
\* nothing else, a repeated call changes nothing, every subscribe call
\* whose function was not called is still registered with every
\* controller, and no event goes to a call whose function was called.
C20_UnsubscribeRemovesOwnRegistration ==
    /\ subEv.kind = "unsubscribe" =>
           /\ \A c \in Controllers :
                  ctlSubs[c] = OthersThan(subEv.before[c], subEv.handle)
           /\ subEv.again => ctlSubs = subEv.before
    /\ \A h \in 1..Len(subHandles) : \A c \in Controllers :
           Registered(c, h) <=> ~subHandles[h].called
    /\ subEv.kind = "emit" =>
           \A k \in 1..Len(subEv.log) :
               ~subHandles[subEv.log[k].handle].called

\* An unsubscribe function was called a second time while another
\* registration of the same callback and event type was in place
C20_Witness ==
    /\ subEv.kind = "unsubscribe"
    /\ subEv.again
    /\ \E h \in 1..Len(subHandles) :
           /\ h # subEv.handle
           /\ ~subHandles[h].called
           /\ subHandles[h].type = subHandles[subEv.handle].type
           /\ subHandles[h].cb = subHandles[subEv.handle].cb

(***************************************************************************)
(* Properties of closing the client.                                       *)
(***************************************************************************)
\* The call of c has failed with ConnectionClosed
FailedClosed(c) ==
    call[c].st = "done" /\ call[c].outcome = "ConnectionClosed"

\* C19: once the client is closed, by close() or by leaving the context
\* manager with or without an error, every call in flight eventually fails
\* with ConnectionClosed, the event stream's reconnect loop eventually
\* stops for good, and no reconnect is made after the close.
C19_CloseEndsCallsAndLoop ==
    /\ cfgClosed ~> [](InFlightCalls = {} /\ esConn = "stopped")
    /\ [][cfgClosed =>
            /\ \A c \in InFlightCalls :
                   call'[c].st = "done" => FailedClosed(c)'
            /\ ~(esConn = "disconnected" /\ esConn' = "connected")]_vars

\* The body of the context manager raised while one call awaited its reply
\* and another waited at the gate; both failed with ConnectionClosed and
\* the reconnect loop has stopped
C19_Witness ==
    /\ exited = "raised"
    /\ esConn = "stopped"
    /\ \E c, d \in Callers :
           /\ FailedClosed(c) /\ call[c].behind = 0
           /\ FailedClosed(d) /\ call[d].behind # 0

(***************************************************************************)
(* Properties of the lookups of the client.                                *)
(***************************************************************************)
\* The ids looked up: those of the files and of the live controller, and one
\* that nothing holds
LookedUpVids == {9, 30, 447, 448, 500, 501, 999}

\* Some controller's registry holds the id
Held(vid) == \E c \in Controllers : vid \in Vids(registry[c])

\* C21: in every state and for every id, get(id) returns an object exactly
\* when "id in vantage" is true, exactly when some controller's registry
\* holds the id; the object returned is the one held, get returns None and
\* raises nothing for an unknown id, and iterating over the client yields
\* exactly the objects the controllers hold.
C21_LookupsAgree ==
    /\ \A vid \in LookedUpVids :
           /\ VantageGet(vid) # KeyErrorRaised
           /\ (VantageGet(vid) # NoObject) <=> VantageContains(vid)
           /\ VantageContains(vid) <=> Held(vid)
           /\ Held(vid) =>
                  /\ VantageGet(vid).vid = vid
                  /\ \E c \in Controllers : VantageGet(vid) \in registry[c]
           /\ ~Held(vid) => VantageGet(vid) = NoObject
    /\ VantageIter = UNION {registry[c] : c \in Controllers}
    /\ \A c \in Controllers : registry[c] \subseteq VantageIter

\* Both controllers hold objects, some from the file and some discovered,
\* while the enclosure of the file and the unknown id are held by nobody
C21_Witness ==
    /\ \A c \in Controllers : registry[c] # {}
    /\ Held(447) /\ Held(501)
    /\ ~Held(30) /\ ~Held(999)
    /\ VantageGet(999) = NoObject

(***************************************************************************)
(* Properties of the values a button's cache goes through.                 *)
(***************************************************************************)
\* The property k of the cache c holds a known value, not None
Known(c, k) ==
    IF k \in {"led_active_color", "led_inactive_color"} THEN c[k] # NoColor
    ELSE c[k] # NoValue

\* C22: under fetch_state, pushed BTN and LED status events, set_led,
\* clear_led and the other calls on a button, a cached property that holds
\* a known value holds a known value after every step: it never becomes
\* unknown again.
C22_KnownStaysKnown ==
    [][\A k \in PropNames : Known(cache, k) => Known(cache', k)]_vars

\* clear_led has replaced known LED values by other known values
C22_Witness ==
    /\ ev.kind = "call" /\ ev.op = "clear_led" /\ ev.outcome = "ok"
    /\ \A k \in SeqToSet(LedNames) :
           Known(ev.before, k) /\ Known(cache, k)
    /\ ev.before.led_blink_rate # cache.led_blink_rate

\* C23: every cached property of a newly created button (state,
\* led_active_color, led_inactive_color, led_blink_rate) is unknown as long
\* as no fetch and no pushed status has carried a value for it: while no
\* step has touched the button, no property holds a known value.
C23_UnknownUntilFetched ==
    ev.kind = "none" => \A k \in PropNames : ~Known(cache, k)

(***************************************************************************)
(* Properties of file_loader.iter_objects.                                 *)
(***************************************************************************)
\* The record has a first child of a recognised type and parses
Yields(e) == e.tag # "" /\ e.tag \in TypeMap /\ e.parses

\* The objects of the records that yield one, in document order
YieldedInOrder(elems) ==
    LET good == SelectSeq(elems, Yields)
    IN  [i \in 1..Len(good) |-> Object(good[i].vid, good[i].tag)]

\* C24: on a well-formed file iter_objects raises nothing and yields, in
\* document order, one object for each record whose first child has a
\* recognised type and parses; every other record is skipped, and what the
\* records before and after a record yield does not depend on it; a file
\* without an <Objects> section yields nothing.
C24_IterObjectsSkipsBadRecords ==
    (loaded.called /\ file.wellFormed) =>
        /\ loaded.raised = "none"
        /\ file.hasObjects => loaded.objects = YieldedInOrder(file.elems)
        /\ ~file.hasObjects => loaded.objects = <<>>
        /\ \A i \in 0..Len(file.elems) :
               IterElems(file.elems) =
                   IterElems(SubSeq(file.elems, 1, i))
                       \o IterElems(SubSeq(file.elems, i + 1,
                                           Len(file.elems)))

\* A record that does not parse stood between two that do, and both were
\* yielded
C24_Witness ==
    /\ loaded.called /\ file.wellFormed /\ file.hasObjects
    /\ Len(file.elems) = 3
    /\ Yields(file.elems[1]) /\ ~file.elems[2].parses /\ Yields(file.elems[3])
    /\ Len(loaded.objects) = 2

(***************************************************************************)
(* Properties of the pushed-status handler.                                *)
(***************************************************************************)
\* The latest step handled a pushed status of a category that is neither
\* BTN nor LED
OtherCategoryPushed == ev.kind = "push" /\ ev.op \notin {"BTN", "LED"}

\* C25: handle_category_status called with a category other than BTN or LED
\* changes no property of the button and gives what the next capability's
\* handler gives; as no capability recognises the category, no cached value
\* changes, nothing is raised and the list returned is empty.
C25_OtherCategoryDelegated ==
    /\ OtherCategoryPushed =>
           /\ cache = ev.before
           /\ ev.outcome = "none"
           /\ ev.changed = <<>>
           /\ ev.emitted = <<>>
           /\ ~ev.updated
    /\ \A e \in StatusEvents :
           e.category \notin {"BTN", "LED"} =>
               HandleCategoryStatus(cache, e.category, e.args)
                   = BaseHandleCategoryStatus(cache, e.category, e.args)

\* A LOAD status was pushed to a button whose state is Down and whose LED
\* values are known
C25_Witness ==
    /\ OtherCategoryPushed
    /\ ev.op = "LOAD"
    /\ cache.state = "Down"
    /\ cache.led_blink_rate # NoValue

(***************************************************************************)
(* Properties of the order of injection and initialisation.                *)
(***************************************************************************)
\* The initialize() of the controller c was launched by Vantage.initialize()
InitializeStarted(c) ==
    job[c] \in {"initialize", "discovering"} \/ lastInit[c].ran

\* C26: with a local config file that exists, every object of the file is
\* injected before the initialize() of any controller starts, so no
\* controller is in live discovery while the file holds objects of its
\* types; without such a file nothing is injected and every controller
\* that initialises queries the live controller.
C26_InjectionPrecedesInitialize ==
    /\ file.isFile =>
           /\ (\E c \in Controllers : InitializeStarted(c)) =>
                  \A d \in Controllers :
                      /\ FileVidsFor(d) \subseteq injectedInto[d]
                      /\ FileVidsFor(d) \subseteq Vids(registry[d])
           /\ \A c \in Controllers :
                  job[c] = "discovering" => FileVidsFor(c) = {}
    /\ ~file.isFile =>
           \A c \in Controllers :
               /\ injectedInto[c] = {}
               /\ lastInit[c].ran => lastInit[c].queried

\* The objects of the file are injected and the controllers' initialize()
\* calls are launched: one has not started yet, the other, for whose types
\* the file holds nothing, is in live discovery
C26_Witness ==
    \E c, d \in Controllers :
        /\ job[c] = "initialize" /\ injectedInto[c] # {}
        /\ FileVidsFor(c) = injectedInto[c]
        /\ job[d] = "discovering" /\ injectedInto[d] = {}

(***************************************************************************)
(* Properties of the three LED properties as one unit.                     *)
(***************************************************************************)
\* The three cached LED properties of the cache c
LedTriple(c) == <<c.led_active_color, c.led_inactive_color, c.led_blink_rate>>

\* Whether each of the eight LED tokens <<state, r1, g1, b1, r2, g2, b2,
\* blink>> decodes on its own
AllTokensDecode(t) ==
    /\ Len(t) = 8
    /\ \A i \in 2..7 : ParseInt(t[i]).ok
    /\ ParseBlinkRate(t[8]).ok

\* The three values that eight decodable LED tokens carry
TripleOf(t) ==
    << <<ParseInt(t[2]).val, ParseInt(t[3]).val, ParseInt(t[4]).val>>,
       <<ParseInt(t[5]).val, ParseInt(t[6]).val, ParseInt(t[7]).val>>,
       ParseBlinkRate(t[8]).val >>

\* The eight tokens a pushed S:LED event is decoded from (args[:8]), and
\* those a tokenized R:GETLED line is decoded from; <<>> when the unpacking
\* fails on the number of tokens
PushedLedTokens(args) == IF Len(args) < 8 THEN <<>> ELSE SubSeq(args, 1, 8)
GetLedTokens(line) == IF Len(line) # 10 THEN <<>> ELSE SubSeq(line, 3, 10)

\* The tokens the latest step decoded, when it was a pushed LED event or the
\* GETLED step of fetch_state that received a reply line
LedStepTokens ==
    IF ev.kind = "push" /\ ev.op = "LED" THEN PushedLedTokens(ev.arg)
    ELSE GetLedTokens(ev.reply)
IsLedStep ==
    \/ ev.kind = "push" /\ ev.op = "LED"
    \/ ev.kind = "call" /\ ev.op = "fetch_state" /\ ev.reply # <<>>

\* Every complete set of LED values one message or one set_led call carries
WholeTriples ==
    {TripleOf(a) : a \in {b \in LedArgLists : AllTokensDecode(b)}}
    \cup {<<a[1], a[2], a[3]>> : a \in SetLedInputs \cup {ClearLedArgs}}

\* C27: the pushed LED handler and the GETLED step of fetch_state write the
\* three LED properties all together, with the values of the message, or,
\* when any token fails to decode, leave all three as they were; the cached
\* three are always Unknown together or the values of one single message or
\* set_led call.
C27_LedPropertiesAllOrNothing ==
    /\ IsLedStep =>
           LedTriple(cache) = (IF AllTokensDecode(LedStepTokens)
                               THEN TripleOf(LedStepTokens)
                               ELSE LedTriple(ev.before))
    /\ LedTriple(cache) \in {LedTriple(PropertyDefaults)} \cup WholeTriples

\* The cache holds the LED values of one message, and a later message whose
\* colours decode but whose blink rate does not, pushed, or a reply to
\* GETLED with a colour that is no integer, has left all three in place
C27_Witness ==
    /\ LedTriple(cache) = TripleOf(LedGood2)
    /\ LedTriple(ev.before) = TripleOf(LedGood2)
    /\ \/ ev.kind = "push" /\ ev.op = "LED" /\ ev.arg = LedBadBlink
       \/ /\ ev.kind = "call" /\ ev.op = "fetch_state"
          /\ ev.reply = GetLedLine(LedNotInt)

(***************************************************************************)
(* Properties of set_led and clear_led as a write to the controller that   *)
(* the cache follows.                                                      *)
(***************************************************************************)
\* The cache c with the three LED properties of the set_led arguments a
WithLedArgs(c, a) ==
    [c EXCEPT !.led_active_color = a[1],
              !.led_inactive_color = a[2],
              !.led_blink_rate = a[3]]

\* The step is a set_led / clear_led call that ends at once, nothing awaited
LedCallEndsAtOnce ==
    /\ task.pc = "idle" /\ task'.pc = "idle"
    /\ ev' # ev
    /\ ev'.kind = "call" /\ ev'.op \in {"set_led", "clear_led"}

\* C28: set_led (and clear_led through it) writes the cached LED properties,
\* to the values it was given, only once the LED command has succeeded.
\* Sending the command changes nothing; when the command fails the call
\* raises that error and every cached property is unchanged; without a
\* command client the call raises ValueError, sends nothing and changes
\* nothing, and with one it never ends before the command has.
C28_SetLedWritesAfterSuccess ==
    [][/\ (task.pc = "idle" /\ task'.pc = "await_led") =>
              /\ hasClient
              /\ cache' = cache
              /\ task'.sent = <<LedCommand(task'.arg[1], task'.arg[2],
                                           task'.arg[3])>>
       /\ (task.pc = "await_led" /\ task'.pc # "await_led") =>
              /\ ev'.op \in {"set_led", "clear_led"}
              /\ ev'.outcome \in {"ok"} \cup ErrorKinds
              /\ cache' = (IF ev'.outcome = "ok"
                           THEN WithLedArgs(cache, task.arg) ELSE cache)
       /\ LedCallEndsAtOnce =>
              /\ ~hasClient
              /\ ev'.outcome = "ValueError"
              /\ ev'.sent = <<>>
              /\ cache' = cache
      ]_vars

\* A set_led call whose LED command failed has raised the error, and the
\* cache still holds the LED values of an earlier message, which differ from
\* the ones the call was to write
C28_Witness ==
    /\ ev.kind = "call" /\ ev.op = "set_led"
    /\ ev.outcome = "CommandError"
    /\ ev.sent = <<LedCommand(ev.arg[1], ev.arg[2], ev.arg[3])>>
    /\ LedTriple(cache) = TripleOf(LedGood2)
    /\ LedTriple(cache) # <<ev.arg[1], ev.arg[2], ev.arg[3]>>
    /\ cache = ev.before

====
